---- MODULE Spec2Model ----
(***************************************************************************)
(* Reservation REST backend (server.js and its second variant, the file    *)
(* kept as src/unnamed/part_000): rate limiter, validation chains,         *)
(* sanitizer, route handlers and the reservas table behind them.           *)
(*                                                                         *)
(* Strings are sequences of characters, a character being one UTF-16 code  *)
(* unit.  A JSON value of a request body is a record [k, s]: k its         *)
(* JavaScript type ("string", "number", "boolean", "undefined") and s its  *)
(* String() form.                                                          *)
(*                                                                         *)
(* The libraries are modelled by what they do to these strings:            *)
(* validator.js 13 behind express-validator, sanitize-html 2 on the        *)
(* tokenizer and parser of htmlparser2 8 with the entity table of HTML.    *)
(* The storage connector (./database) is a connection pool: statements of  *)
(* different requests are in flight together and end in any order.         *)
(***************************************************************************)
EXTENDS Integers, Sequences, FiniteSets, Bags, TLC

VARIABLES
    variant,    \* the server file that runs: "server.js" or "part_000"
    table,      \* the reservas table: id -> stored row
    nextId,     \* the id the storage gives the next inserted row
    hits,       \* limiter: each client's count in its window
    remaining,  \* limiter: ms left in each client's window, 0 when none is open
    pending,    \* the bag of connection.query calls in flight
    resp,       \* what the last step sent: the responses of one request
    sanIn,      \* sanitizeInput as a function: the input
    sanOut      \* sanitizeInput as a function: the outputs of one and two runs

vars == <<variant, table, nextId, hits, remaining, pending, resp, sanIn, sanOut>>

(***************************************************************************)
(* Characters                                                              *)
(***************************************************************************)
\* A code unit that has no printable ASCII form, by its number: U(160) is
\* U+00A0.
U(n) == "u" \o ToString(n)

\* The printable ASCII characters, codes 32 to 126, in order.
Printable ==
    <<" ", "!", "\"", "#", "$", "%", "&", "'", "(", ")", "*", "+", ",", "-", ".", "/",
      "0", "1", "2", "3", "4", "5", "6", "7", "8", "9", ":", ";", "<", "=", ">", "?",
      "@", "A", "B", "C", "D", "E", "F", "G", "H", "I", "J", "K", "L", "M", "N", "O",
      "P", "Q", "R", "S", "T", "U", "V", "W", "X", "Y", "Z", "[", "\\", "]", "^", "_",
      U(96), "a", "b", "c", "d", "e", "f", "g", "h", "i", "j", "k", "l", "m", "n", "o",
      "p", "q", "r", "s", "t", "u", "v", "w", "x", "y", "z", "{", "|", "}", "~">>

\* String.fromCharCode(n)
Chr(n) ==
    IF n >= 32 /\ n <= 126 THEN Printable[n - 31]
    ELSE CASE n = 9  -> "\t"
           [] n = 10 -> "\n"
           [] n = 12 -> "\f"
           [] n = 13 -> "\r"
           [] OTHER  -> U(n)

\* The characters with codes a to b.
Range(a, b) == {Chr(n) : n \in a..b}

LowerCase == Range(97, 122)

UpperCase == Range(65, 90)

Letter == LowerCase \cup UpperCase

Digit == Range(48, 57)

\* The class \s of a JavaScript pattern.
Whitespace ==
    {Chr(n) : n \in {9, 10, 11, 12, 13, 32, 160, 5760, 8232, 8233, 8239, 8287,
                     12288, 65279} \cup 8192..8202}

\* What "." of a JavaScript pattern does not match.
LineTerminator == {Chr(10), Chr(13), Chr(8232), Chr(8233)}

\* The first half and the second half of a surrogate pair.
HighSurrogate == Range(55296, 56319)

LowSurrogate == Range(56320, 57343)

\* The backquote character, which a string of this module cannot hold.
Backquote == Chr(96)

\* The code of a printable ASCII character.
Code(c) == 31 + CHOOSE k \in 1..Len(Printable) : Printable[k] = c

\* String.fromCodePoint: one code unit, or a surrogate pair.
fromCodePoint(cp) ==
    IF cp <= 65535 THEN <<Chr(cp)>>
    ELSE <<Chr(55296 + ((cp - 65536) \div 1024)), Chr(56320 + ((cp - 65536) % 1024))>>

RECURSIVE CodePoints(_)
\* The code points of a string, each as its code units: a surrogate pair is
\* one code point, every other code unit is one.
CodePoints(s) ==
    IF s = <<>> THEN <<>>
    ELSE IF Len(s) >= 2 /\ s[1] \in HighSurrogate /\ s[2] \in LowSurrogate
    THEN <<SubSeq(s, 1, 2)>> \o CodePoints(SubSeq(s, 3, Len(s)))
    ELSE <<SubSeq(s, 1, 1)>> \o CodePoints(Tail(s))

\* The lower-case mappings of the Unicode character database (version 17,
\* the one of the runtime's ICU 78), as runs of
\* four numbers, first, last, step, delta: the code points first,
\* first + step, ..., last map to themselves plus delta (1181 code points
\* below U+10000, with U+0130, which maps to two).
LowerCaseRanges ==
    << 65,90,1,32, 192,214,1,32, 216,222,1,32, 256,302,2,1, 306,310,2,1,
      313,327,2,1, 330,374,2,1, 376,376,1,-121, 377,381,2,1, 385,385,1,210,
      386,388,2,1, 390,390,1,206, 391,391,1,1, 393,394,1,205, 395,395,1,1,
      398,398,1,79, 399,399,1,202, 400,400,1,203, 401,401,1,1, 403,403,1,205,
      404,404,1,207, 406,406,1,211, 407,407,1,209, 408,408,1,1, 412,412,1,211,
      413,413,1,213, 415,415,1,214, 416,420,2,1, 422,422,1,218, 423,423,1,1,
      425,425,1,218, 428,428,1,1, 430,430,1,218, 431,431,1,1, 433,434,1,217,
      435,437,2,1, 439,439,1,219, 440,440,1,1, 444,444,1,1, 452,452,1,2,
      453,453,1,1, 455,455,1,2, 456,456,1,1, 458,458,1,2, 459,475,2,1,
      478,494,2,1, 497,497,1,2, 498,500,2,1, 502,502,1,-97, 503,503,1,-56,
      504,542,2,1, 544,544,1,-130, 546,562,2,1, 570,570,1,10795, 571,571,1,1,
      573,573,1,-163, 574,574,1,10792, 577,577,1,1, 579,579,1,-195, 580,580,1,69,
      581,581,1,71, 582,590,2,1, 880,882,2,1, 886,886,1,1, 895,895,1,116,
      902,902,1,38, 904,906,1,37, 908,908,1,64, 910,911,1,63, 913,929,1,32,
      931,939,1,32, 975,975,1,8, 984,1006,2,1, 1012,1012,1,-60, 1015,1015,1,1,
      1017,1017,1,-7, 1018,1018,1,1, 1021,1023,1,-130, 1024,1039,1,80, 1040,1071,1,32,
      1120,1152,2,1, 1162,1214,2,1, 1216,1216,1,15, 1217,1229,2,1, 1232,1326,2,1,
      1329,1366,1,48, 4256,4293,1,7264, 4295,4295,1,7264, 4301,4301,1,7264, 5024,5103,1,38864,
      5104,5109,1,8, 7305,7305,1,1, 7312,7354,1,-3008, 7357,7359,1,-3008, 7680,7828,2,1,
      7838,7838,1,-7615, 7840,7934,2,1, 7944,7951,1,-8, 7960,7965,1,-8, 7976,7983,1,-8,
      7992,7999,1,-8, 8008,8013,1,-8, 8025,8031,2,-8, 8040,8047,1,-8, 8072,8079,1,-8,
      8088,8095,1,-8, 8104,8111,1,-8, 8120,8121,1,-8, 8122,8123,1,-74, 8124,8124,1,-9,
      8136,8139,1,-86, 8140,8140,1,-9, 8152,8153,1,-8, 8154,8155,1,-100, 8168,8169,1,-8,
      8170,8171,1,-112, 8172,8172,1,-7, 8184,8185,1,-128, 8186,8187,1,-126, 8188,8188,1,-9,
      8486,8486,1,-7517, 8490,8490,1,-8383, 8491,8491,1,-8262, 8498,8498,1,28, 8544,8559,1,16,
      8579,8579,1,1, 9398,9423,1,26, 11264,11311,1,48, 11360,11360,1,1, 11362,11362,1,-10743,
      11363,11363,1,-3814, 11364,11364,1,-10727, 11367,11371,2,1, 11373,11373,1,-10780, 11374,11374,1,-10749,
      11375,11375,1,-10783, 11376,11376,1,-10782, 11378,11378,1,1, 11381,11381,1,1, 11390,11391,1,-10815,
      11392,11490,2,1, 11499,11501,2,1, 11506,11506,1,1, 42560,42604,2,1, 42624,42650,2,1,
      42786,42798,2,1, 42802,42862,2,1, 42873,42875,2,1, 42877,42877,1,-35332, 42878,42886,2,1,
      42891,42891,1,1, 42893,42893,1,-42280, 42896,42898,2,1, 42902,42920,2,1, 42922,42922,1,-42308,
      42923,42923,1,-42319, 42924,42924,1,-42315, 42925,42925,1,-42305, 42926,42926,1,-42308, 42928,42928,1,-42258,
      42929,42929,1,-42282, 42930,42930,1,-42261, 42931,42931,1,928, 42932,42946,2,1, 42948,42948,1,-48,
      42949,42949,1,-42307, 42950,42950,1,-35384, 42951,42953,2,1, 42955,42955,1,-42343, 42956,42970,2,1,
      42972,42972,1,-42561, 42997,42997,1,1, 65313,65338,1,32, 66560,66599,1,40, 66736,66771,1,40,
      66928,66938,1,39, 66940,66954,1,39, 66956,66962,1,39, 66964,66965,1,39, 68736,68786,1,64,
      68944,68965,1,32, 71840,71871,1,32, 93760,93791,1,32, 93856,93880,1,27, 125184,125217,1,34 >>

\* toLowerCase of one code point that changes.
LowerCaseTable ==
    UNION {{<<fromCodePoint(r[1] + k * r[3]), fromCodePoint(r[1] + k * r[3] + r[4])>> :
               k \in 0..((r[2] - r[1]) \div r[3])} :
              r \in {SubSeq(LowerCaseRanges, 4 * n - 3, 4 * n) :
                        n \in 1..(Len(LowerCaseRanges) \div 4)}}
    \cup {<<fromCodePoint(304), <<"i", Chr(775)>>>>}

\* The code points with the property Cased that are not Case_Ignorable
\* (Unicode 17, as ICU 78 classifies them: U+0295 is not cased, U+1DF25 to
\* U+1DF2A are), as ranges, the first and the last code point of each.
Cased ==
    LET ranges == << 65,90, 97,122, 170,170, 181,181, 186,186, 192,214,
      216,246, 248,442, 444,447, 452,659, 662,687, 880,883,
      886,887, 891,893, 895,895, 902,902, 904,906, 908,908,
      910,929, 931,1013, 1015,1153, 1162,1327, 1329,1366, 1376,1416,
      4256,4293, 4295,4295, 4301,4301, 4304,4346, 4349,4351, 5024,5109,
      5112,5117, 7296,7306, 7312,7354, 7357,7359, 7424,7467, 7531,7543,
      7545,7578, 7680,7957, 7960,7965, 7968,8005, 8008,8013, 8016,8023,
      8025,8025, 8027,8027, 8029,8029, 8031,8061, 8064,8116, 8118,8124,
      8126,8126, 8130,8132, 8134,8140, 8144,8147, 8150,8155, 8160,8172,
      8178,8180, 8182,8188, 8450,8450, 8455,8455, 8458,8467, 8469,8469,
      8473,8477, 8484,8484, 8486,8486, 8488,8488, 8490,8493, 8495,8500,
      8505,8505, 8508,8511, 8517,8521, 8526,8526, 8544,8575, 8579,8580,
      9398,9449, 11264,11387, 11390,11492, 11499,11502, 11506,11507, 11520,11557,
      11559,11559, 11565,11565, 42560,42605, 42624,42651, 42786,42863, 42865,42887,
      42891,42894, 42896,42972, 42997,42998, 43002,43002, 43824,43866, 43872,43880,
      43888,43967, 64256,64262, 64275,64279, 65313,65338, 65345,65370, 66560,66639,
      66736,66771, 66776,66811, 66928,66938, 66940,66954, 66956,66962, 66964,66965,
      66967,66977, 66979,66993, 66995,67001, 67003,67004, 68736,68786, 68800,68850,
      68944,68965, 68976,68997, 71840,71903, 93760,93823, 93856,93880, 93883,93907,
      119808,119892, 119894,119964, 119966,119967, 119970,119970, 119973,119974, 119977,119980,
      119982,119993, 119995,119995, 119997,120003, 120005,120069, 120071,120074, 120077,120084,
      120086,120092, 120094,120121, 120123,120126, 120128,120132, 120134,120134, 120138,120144,
      120146,120485, 120488,120512, 120514,120538, 120540,120570, 120572,120596, 120598,120628,
      120630,120654, 120656,120686, 120688,120712, 120714,120744, 120746,120770, 120772,120779,
      122624,122633, 122635,122654, 122661,122666, 125184,125251, 127280,127305, 127312,127337,
      127344,127369 >>
    IN  UNION {{fromCodePoint(cp) : cp \in ranges[2 * n - 1]..ranges[2 * n]} :
                  n \in 1..(Len(ranges) \div 2)}

\* The code points with the property Case_Ignorable (Unicode 17, as ICU 78
\* classifies them), as ranges, the first and the last code point of each.
CaseIgnorable ==
    LET ranges == << 39,39, 46,46, 58,58, 94,94, 96,96, 168,168,
      173,173, 175,175, 180,180, 183,184, 688,879, 884,885,
      890,890, 900,901, 903,903, 1155,1161, 1369,1369, 1375,1375,
      1425,1469, 1471,1471, 1473,1474, 1476,1477, 1479,1479, 1524,1524,
      1536,1541, 1552,1562, 1564,1564, 1600,1600, 1611,1631, 1648,1648,
      1750,1757, 1759,1768, 1770,1773, 1807,1807, 1809,1809, 1840,1866,
      1958,1968, 2027,2037, 2042,2042, 2045,2045, 2070,2093, 2137,2139,
      2184,2184, 2192,2193, 2199,2207, 2249,2306, 2362,2362, 2364,2364,
      2369,2376, 2381,2381, 2385,2391, 2402,2403, 2417,2417, 2433,2433,
      2492,2492, 2497,2500, 2509,2509, 2530,2531, 2558,2558, 2561,2562,
      2620,2620, 2625,2626, 2631,2632, 2635,2637, 2641,2641, 2672,2673,
      2677,2677, 2689,2690, 2748,2748, 2753,2757, 2759,2760, 2765,2765,
      2786,2787, 2810,2815, 2817,2817, 2876,2876, 2879,2879, 2881,2884,
      2893,2893, 2901,2902, 2914,2915, 2946,2946, 3008,3008, 3021,3021,
      3072,3072, 3076,3076, 3132,3132, 3134,3136, 3142,3144, 3146,3149,
      3157,3158, 3170,3171, 3201,3201, 3260,3260, 3263,3263, 3270,3270,
      3276,3277, 3298,3299, 3328,3329, 3387,3388, 3393,3396, 3405,3405,
      3426,3427, 3457,3457, 3530,3530, 3538,3540, 3542,3542, 3633,3633,
      3636,3642, 3654,3662, 3761,3761, 3764,3772, 3782,3782, 3784,3790,
      3864,3865, 3893,3893, 3895,3895, 3897,3897, 3953,3966, 3968,3972,
      3974,3975, 3981,3991, 3993,4028, 4038,4038, 4141,4144, 4146,4151,
      4153,4154, 4157,4158, 4184,4185, 4190,4192, 4209,4212, 4226,4226,
      4229,4230, 4237,4237, 4253,4253, 4348,4348, 4957,4959, 5906,5908,
      5938,5939, 5970,5971, 6002,6003, 6068,6069, 6071,6077, 6086,6086,
      6089,6099, 6103,6103, 6109,6109, 6155,6159, 6211,6211, 6277,6278,
      6313,6313, 6432,6434, 6439,6440, 6450,6450, 6457,6459, 6679,6680,
      6683,6683, 6742,6742, 6744,6750, 6752,6752, 6754,6754, 6757,6764,
      6771,6780, 6783,6783, 6823,6823, 6832,6877, 6880,6891, 6912,6915,
      6964,6964, 6966,6970, 6972,6972, 6978,6978, 7019,7027, 7040,7041,
      7074,7077, 7080,7081, 7083,7085, 7142,7142, 7144,7145, 7149,7149,
      7151,7153, 7212,7219, 7222,7223, 7288,7293, 7376,7378, 7380,7392,
      7394,7400, 7405,7405, 7412,7412, 7416,7417, 7468,7530, 7544,7544,
      7579,7679, 8125,8125, 8127,8129, 8141,8143, 8157,8159, 8173,8175,
      8189,8190, 8203,8207, 8216,8217, 8228,8228, 8231,8231, 8234,8238,
      8288,8292, 8294,8303, 8305,8305, 8319,8319, 8336,8348, 8400,8432,
      11388,11389, 11503,11505, 11631,11631, 11647,11647, 11744,11775, 11823,11823,
      12293,12293, 12330,12333, 12337,12341, 12347,12347, 12441,12446, 12540,12542,
      40981,40981, 42232,42237, 42508,42508, 42607,42610, 42612,42621, 42623,42623,
      42652,42655, 42736,42737, 42752,42785, 42864,42864, 42888,42890, 42993,42996,
      43000,43001, 43010,43010, 43014,43014, 43019,43019, 43045,43046, 43052,43052,
      43204,43205, 43232,43249, 43263,43263, 43302,43309, 43335,43345, 43392,43394,
      43443,43443, 43446,43449, 43452,43453, 43471,43471, 43493,43494, 43561,43566,
      43569,43570, 43573,43574, 43587,43587, 43596,43596, 43632,43632, 43644,43644,
      43696,43696, 43698,43700, 43703,43704, 43710,43711, 43713,43713, 43741,43741,
      43756,43757, 43763,43764, 43766,43766, 43867,43871, 43881,43883, 44005,44005,
      44008,44008, 44013,44013, 64286,64286, 64434,64450, 65024,65039, 65043,65043,
      65056,65071, 65106,65106, 65109,65109, 65279,65279, 65287,65287, 65294,65294,
      65306,65306, 65342,65342, 65344,65344, 65392,65392, 65438,65439, 65507,65507,
      65529,65531, 66045,66045, 66272,66272, 66422,66426, 67456,67461, 67463,67504,
      67506,67514, 68097,68099, 68101,68102, 68108,68111, 68152,68154, 68159,68159,
      68325,68326, 68900,68903, 68942,68942, 68969,68973, 68975,68975, 69291,69292,
      69317,69317, 69370,69375, 69446,69456, 69506,69509, 69633,69633, 69688,69702,
      69744,69744, 69747,69748, 69759,69761, 69811,69814, 69817,69818, 69821,69821,
      69826,69826, 69837,69837, 69888,69890, 69927,69931, 69933,69940, 70003,70003,
      70016,70017, 70070,70078, 70089,70092, 70095,70095, 70191,70193, 70196,70196,
      70198,70199, 70206,70206, 70209,70209, 70367,70367, 70371,70378, 70400,70401,
      70459,70460, 70464,70464, 70502,70508, 70512,70516, 70587,70592, 70606,70606,
      70608,70608, 70610,70610, 70625,70626, 70712,70719, 70722,70724, 70726,70726,
      70750,70750, 70835,70840, 70842,70842, 70847,70848, 70850,70851, 71090,71093,
      71100,71101, 71103,71104, 71132,71133, 71219,71226, 71229,71229, 71231,71232,
      71339,71339, 71341,71341, 71344,71349, 71351,71351, 71453,71453, 71455,71455,
      71458,71461, 71463,71467, 71727,71735, 71737,71738, 71995,71996, 71998,71998,
      72003,72003, 72148,72151, 72154,72155, 72160,72160, 72193,72202, 72243,72248,
      72251,72254, 72263,72263, 72273,72278, 72281,72283, 72330,72342, 72344,72345,
      72544,72544, 72546,72548, 72550,72550, 72752,72758, 72760,72765, 72767,72767,
      72850,72871, 72874,72880, 72882,72883, 72885,72886, 73009,73014, 73018,73018,
      73020,73021, 73023,73029, 73031,73031, 73104,73105, 73109,73109, 73111,73111,
      73177,73177, 73459,73460, 73472,73473, 73526,73530, 73536,73536, 73538,73538,
      73562,73562, 78896,78912, 78919,78933, 90398,90409, 90413,90415, 92912,92916,
      92976,92982, 92992,92995, 93504,93506, 93547,93548, 94031,94031, 94095,94111,
      94176,94177, 94179,94180, 94194,94195, 110576,110579, 110581,110587, 110589,110590,
      113821,113822, 113824,113827, 118528,118573, 118576,118598, 119143,119145, 119155,119170,
      119173,119179, 119210,119213, 119362,119364, 121344,121398, 121403,121452, 121461,121461,
      121476,121476, 121499,121503, 121505,121519, 122880,122886, 122888,122904, 122907,122913,
      122915,122916, 122918,122922, 122928,122989, 123023,123023, 123184,123197, 123566,123566,
      123628,123631, 124139,124143, 124398,124399, 124643,124643, 124646,124646, 124654,124655,
      124661,124661, 124671,124671, 125136,125142, 125252,125259, 127995,127999, 917505,917505,
      917536,917631, 917760,917999 >>
    IN  UNION {{fromCodePoint(cp) : cp \in ranges[2 * n - 1]..ranges[2 * n]} :
                  n \in 1..(Len(ranges) \div 2)}

RECURSIVE toLowerCaseFrom(_, _)
\* String.prototype.toLowerCase from the k-th code point on.  A capital
\* sigma is the final one (U+03C2) when a cased letter precedes it and none
\* follows, case-ignorable code points skipped on both sides.
toLowerCaseFrom(cps, k) ==
    IF k > Len(cps) THEN <<>>
    ELSE LET before == {j \in 1..(k - 1) : cps[j] \notin CaseIgnorable}
             after  == {j \in (k + 1)..Len(cps) : cps[j] \notin CaseIgnorable}
             final  == /\ before # {}
                       /\ cps[CHOOSE j \in before : \A m \in before : m <= j] \in Cased
                       /\ ~(/\ after # {}
                            /\ cps[CHOOSE j \in after : \A m \in after : j <= m] \in Cased)
             Lower(found) ==
                 IF cps[k] = <<Chr(931)>> /\ final THEN <<Chr(962)>>
                 ELSE IF found # {} THEN (CHOOSE p \in found : TRUE)[2]
                 ELSE cps[k]
         IN  Lower({p \in LowerCaseTable : p[1] = cps[k]})
             \o toLowerCaseFrom(cps, k + 1)

\* String.prototype.toLowerCase
toLowerCase(s) == toLowerCaseFrom(CodePoints(s), 1)

Str(k, s) == [k |-> k, s |-> s]

Undefined == [k |-> "undefined", s |-> <<>>]

\* express-validator's toString: undefined and null become "", everything
\* else its String() form.
toString(v) == IF v.k = "undefined" THEN <<>> ELSE v.s

RECURSIVE FindFrom(_, _, _)
\* Smallest index j >= i with s[j] \in cs, or 0 when there is none.
FindFrom(s, cs, i) ==
    IF i > Len(s) THEN 0
    ELSE IF s[i] \in cs THEN i
    ELSE FindFrom(s, cs, i + 1)

Min(a, b) == IF a < b THEN a ELSE b

(***************************************************************************)
(* validator.js sanitizers and validators used by the chains               *)
(***************************************************************************)
\* trim: rtrim(ltrim(str)), str.replace(/^\s+/g, "") and then the
\* characters up to the last one that /\s/ does not match.
trim(s) ==
    LET kept == {i \in 1..Len(s) : s[i] \notin Whitespace}
    IN  IF kept = {} THEN <<>>
        ELSE SubSeq(s, CHOOSE i \in kept : \A j \in kept : i <= j,
                       CHOOSE i \in kept : \A j \in kept : j <= i)

RECURSIVE escape(_)
\* escape: the replacements of & " ' < > / \ and the backquote.
escape(s) ==
    LET EscapeChar(c) ==
            CASE c = "&"  -> <<"&","a","m","p",";">>
              [] c = "\"" -> <<"&","q","u","o","t",";">>
              [] c = "'"  -> <<"&","#","x","2","7",";">>
              [] c = "<"  -> <<"&","l","t",";">>
              [] c = ">"  -> <<"&","g","t",";">>
              [] c = "/"  -> <<"&","#","x","2","F",";">>
              [] c = "\\" -> <<"&","#","x","5","C",";">>
              [] c = Backquote -> <<"&","#","9","6",";">>
              [] OTHER    -> <<c>>
    IN  IF s = <<>> THEN <<>> ELSE EscapeChar(Head(s)) \o escape(Tail(s))

\* The surrogate pairs of s, by the index of their first half.
SurrogatePairs(s) ==
    {i \in 1..(Len(s) - 1) : s[i] \in HighSurrogate /\ s[i + 1] \in LowSurrogate}

\* The variation selectors U+FE0E and U+FE0F of s.
PresentationSequences(s) == {i \in 1..Len(s) : s[i] \in {Chr(65038), Chr(65039)}}

\* isLength counts a surrogate pair once and no variation selector.
isLength(s, min, max) ==
    LET len == Len(s) - Cardinality(PresentationSequences(s))
                      - Cardinality(SurrogatePairs(s))
    IN  len >= min /\ len <= max

AllIn(s, cs) == \A i \in 1..Len(s) : s[i] \in cs

\* /^[+-]?([0-9]*[.])?[0-9]+$/
isNumeric(s) ==
    LET u == IF s # <<>> /\ Head(s) \in {"+", "-"} THEN Tail(s) ELSE s
        d == FindFrom(u, {"."}, 1)
    IN  IF d = 0
        THEN u # <<>> /\ AllIn(u, Digit)
        ELSE /\ AllIn(SubSeq(u, 1, d - 1), Digit)
             /\ d < Len(u)
             /\ AllIn(SubSeq(u, d + 1, Len(u)), Digit)

isIn(s, options) == s \in options

isBoolean(s) ==
    s \in { <<"t","r","u","e">>, <<"f","a","l","s","e">>, <<"1">>, <<"0">> }

RECURSIVE LastIndexOf(_, _, _)
LastIndexOf(s, c, i) ==
    IF i < 1 THEN 0 ELSE IF s[i] = c THEN i ELSE LastIndexOf(s, c, i - 1)

RECURSIVE Split(_, _)
\* String.prototype.split on a one-character separator.
Split(s, c) ==
    LET j == FindFrom(s, {c}, 1)
    IN  IF j = 0 THEN <<s>>
        ELSE <<SubSeq(s, 1, j - 1)>> \o Split(SubSeq(s, j + 1, Len(s)), c)

\* U+00A1-U+D7FF, U+F900-U+FDCF and U+FDF0-U+FFEF of the patterns of isEmail.
Utf8Chars == Range(161, 55295) \cup Range(63744, 64975) \cup Range(65008, 65519)

\* The class of emailUserUtf8Part (allow_utf8_local_part is the default).
EmailUserChars ==
    Letter \cup Digit \cup Utf8Chars \cup
    {"!","#","$","%","&","'","*","+","-","/","=","?","^","_",Backquote,"{","|","}","~"}

\* The class of quotedEmailUserUtf8 outside an escape.
QuotedChars ==
    Whitespace \cup Range(1, 8) \cup Range(11, 12) \cup Range(14, 31) \cup
    Range(127, 127) \cup Range(33, 33) \cup Range(35, 91) \cup Range(93, 126) \cup
    Range(160, 160) \cup Utf8Chars

\* The class of quotedEmailUserUtf8 after a backslash.
QuotedEscapedChars ==
    Range(1, 9) \cup Range(11, 127) \cup Range(160, 160) \cup Utf8Chars

RECURSIVE quotedEmailUser(_, _)
\* /^([class]|(\\[class]))*$/ from position i on.
quotedEmailUser(s, i) ==
    IF i > Len(s) THEN TRUE
    ELSE IF s[i] = "\\"
    THEN i < Len(s) /\ s[i + 1] \in QuotedEscapedChars /\ quotedEmailUser(s, i + 2)
    ELSE s[i] \in QuotedChars /\ quotedEmailUser(s, i + 1)

\* The class of a top-level domain: a-z, U+00A1-U+00A8, U+00AA-U+D7FF,
\* U+F900-U+FDCF and U+FDF0-U+FFEF.
TldChars == Letter \cup (Utf8Chars \ {Chr(169)})

\* The class of a label, a-z, _, 0-9, - and U+00A1-U+FFFF, less the
\* full-width characters U+FF01-U+FF5E.
LabelChars ==
    Letter \cup Digit \cup {"_", "-"} \cup Range(161, 65280) \cup Range(65375, 65535)

\* isFQDN with its defaults (require_tld, no underscores, no trailing dot).
isFQDN(s) ==
    LET parts == Split(s, ".")
        tld   == parts[Len(parts)]
    IN  /\ Len(parts) >= 2
        /\ \/ Len(tld) >= 2 /\ AllIn(tld, TldChars)
           \/ /\ Len(tld) >= 4
              /\ tld[1] \in {"x", "X"}
              /\ tld[2] \in {"n", "N"}
              /\ AllIn(SubSeq(tld, 3, Len(tld)), Letter \cup Digit \cup {"-"})
        /\ \A i \in 1..Len(tld) : tld[i] \notin Whitespace
        /\ ~(tld # <<>> /\ AllIn(tld, Digit))
        /\ \A i \in 1..Len(parts) :
              /\ Len(parts[i]) <= 63
              /\ parts[i] # <<>>
              /\ AllIn(parts[i], LabelChars)
              /\ parts[i][1] # "-"
              /\ parts[i][Len(parts[i])] # "-"
              /\ \A k \in 1..Len(parts[i]) : parts[i][k] # "_"

\* A surrogate that is not half of a pair: encodeURI throws URIError on it.
LoneSurrogate(s) ==
    \E i \in 1..Len(s) :
        \/ s[i] \in HighSurrogate /\ (i = Len(s) \/ s[i + 1] \notin LowSurrogate)
        \/ s[i] \in LowSurrogate /\ (i = 1 \/ s[i - 1] \notin HighSurrogate)

\* The characters encodeURI writes as one byte, and those it writes as two:
\* U+0080-U+07FF, and each half of a surrogate pair.
OneByteChars == Range(0, 127)

TwoByteChars == Range(128, 2047) \cup HighSurrogate \cup LowSurrogate

RECURSIVE ByteLength(_)
\* encodeURI(str).split(/%..|./).length - 1: the length of s in UTF-8.
ByteLength(s) ==
    IF s = <<>> THEN 0
    ELSE (IF Head(s) \in OneByteChars THEN 1
          ELSE IF Head(s) \in TwoByteChars THEN 2 ELSE 3) + ByteLength(Tail(s))

isByteLength(s, max) == ByteLength(s) <= max

\* The local part and the domain: split at "@", the domain is the last part.
EmailUser(s) == SubSeq(s, 1, LastIndexOf(s, "@", Len(s)) - 1)

EmailDomain(s) == SubSeq(s, LastIndexOf(s, "@", Len(s)) + 1, Len(s))

\* isEmail throws where isByteLength meets a lone surrogate.
isEmailThrows(s) ==
    /\ Len(s) <= 254
    /\ \/ LoneSurrogate(EmailUser(s))
       \/ isByteLength(EmailUser(s), 64) /\ LoneSurrogate(EmailDomain(s))

\* isEmail with its defaults (no display name, TLD required, UTF-8 local
\* part allowed, at most 254 characters).
isEmail(s) ==
    LET user   == EmailUser(s)
        domain == EmailDomain(s)
        uparts == Split(user, ".")
    IN  /\ ~isEmailThrows(s)
        /\ Len(s) <= 254
        /\ isByteLength(user, 64)
        /\ isByteLength(domain, 254)
        /\ isFQDN(domain)
        /\ IF user # <<>> /\ user[1] = "\""
           THEN quotedEmailUser(SubSeq(user, 2, Len(user) - 1), 1)
           ELSE \A i \in 1..Len(uparts) :
                   uparts[i] # <<>> /\ AllIn(uparts[i], EmailUserChars)

(***************************************************************************)
(* sanitize-html with allowedTags: [] and allowedAttributes: {}: the       *)
(* tokenizer and the parser of htmlparser2 under it, decodeEntities on     *)
(***************************************************************************)
\* Tags whose text sanitize-html drops together with the tag (nonTextTags).
NonTextTags == { <<"s","c","r","i","p","t">>, <<"s","t","y","l","e">>, <<"t","e","x","t","a","r","e","a">>, <<"o","p","t","i","o","n">> }

\* The parser's tables: the open elements an opening tag closes, the
\* elements without content, and those that switch self-closing tags on
\* (SVG, MathML) and off again.
openImpliesClose(name) ==
    CASE name = <<"t","r">> -> { <<"t","r">>, <<"t","h">>, <<"t","d">> }
      [] name = <<"t","h">> -> { <<"t","h">> }
      [] name = <<"t","d">> -> { <<"t","h","e","a","d">>, <<"t","h">>, <<"t","d">> }
      [] name = <<"b","o","d","y">> -> { <<"h","e","a","d">>, <<"l","i","n","k">>, <<"s","c","r","i","p","t">> }
      [] name = <<"l","i">> -> { <<"l","i">> }
      [] name \in { <<"p">>, <<"h","1">>, <<"h","2">>, <<"h","3">>, <<"h","4">>, <<"h","5">>, <<"h","6">>,
                    <<"a","d","d","r","e","s","s">>, <<"a","r","t","i","c","l","e">>, <<"a","s","i","d","e">>, <<"b","l","o","c","k","q","u","o","t","e">>,
                    <<"d","e","t","a","i","l","s">>, <<"d","i","v">>, <<"d","l">>, <<"f","i","e","l","d","s","e","t">>,
                    <<"f","i","g","c","a","p","t","i","o","n">>, <<"f","i","g","u","r","e">>, <<"f","o","o","t","e","r">>, <<"f","o","r","m">>,
                    <<"h","e","a","d","e","r">>, <<"h","r">>, <<"m","a","i","n">>, <<"n","a","v">>, <<"o","l">>,
                    <<"p","r","e">>, <<"s","e","c","t","i","o","n">>, <<"t","a","b","l","e">>, <<"u","l">> } ->
           { <<"p">> }
      [] name \in { <<"s","e","l","e","c","t">>, <<"i","n","p","u","t">>, <<"o","u","t","p","u","t">>, <<"b","u","t","t","o","n">>,
                    <<"d","a","t","a","l","i","s","t">>, <<"t","e","x","t","a","r","e","a">> } ->
           { <<"i","n","p","u","t">>, <<"o","p","t","i","o","n">>, <<"o","p","t","g","r","o","u","p">>, <<"s","e","l","e","c","t">>, <<"b","u","t","t","o","n">>,
             <<"d","a","t","a","l","i","s","t">>, <<"t","e","x","t","a","r","e","a">> }
      [] name = <<"o","p","t","i","o","n">> -> { <<"o","p","t","i","o","n">> }
      [] name = <<"o","p","t","g","r","o","u","p">> -> { <<"o","p","t","g","r","o","u","p">>, <<"o","p","t","i","o","n">> }
      [] name \in { <<"d","d">>, <<"d","t">> } -> { <<"d","d">>, <<"d","t">> }
      [] name \in { <<"r","t">>, <<"r","p">> } -> { <<"r","t">>, <<"r","p">> }
      [] name \in { <<"t","b","o","d","y">>, <<"t","f","o","o","t">> } -> { <<"t","h","e","a","d">>, <<"t","b","o","d","y">> }
      [] OTHER -> {}

voidElements ==
    { <<"a","r","e","a">>, <<"b","a","s","e">>, <<"b","a","s","e","f","o","n","t">>, <<"b","r">>, <<"c","o","l">>, <<"c","o","m","m","a","n","d">>,
      <<"e","m","b","e","d">>, <<"f","r","a","m","e">>, <<"h","r">>, <<"i","m","g">>, <<"i","n","p","u","t">>, <<"i","s","i","n","d","e","x">>,
      <<"k","e","y","g","e","n">>, <<"l","i","n","k">>, <<"m","e","t","a">>, <<"p","a","r","a","m">>, <<"s","o","u","r","c","e">>, <<"t","r","a","c","k">>,
      <<"w","b","r">> }

foreignContextElements == { <<"m","a","t","h">>, <<"s","v","g">> }

htmlIntegrationElements ==
    { <<"m","i">>, <<"m","o">>, <<"m","n">>, <<"m","s">>, <<"m","t","e","x","t">>, <<"a","n","n","o","t","a","t","i","o","n","-","x","m","l">>,
      <<"f","o","r","e","i","g","n","o","b","j","e","c","t">>, <<"d","e","s","c">>, <<"t","i","t","l","e">> }

\* The named character references of HTML: the name as it follows "&" (with
\* its ";", or without for the references that need none) and the code
\* units it stands for.
EntityTable ==
    {
      <<<<"A","E","l","i","g">>,<<198>>>>, <<<<"A","E","l","i","g",";">>,<<198>>>>, <<<<"A","M","P">>,<<38>>>>,
      <<<<"A","M","P",";">>,<<38>>>>, <<<<"A","a","c","u","t","e">>,<<193>>>>,
      <<<<"A","a","c","u","t","e",";">>,<<193>>>>, <<<<"A","b","r","e","v","e",";">>,<<258>>>>,
      <<<<"A","c","i","r","c">>,<<194>>>>, <<<<"A","c","i","r","c",";">>,<<194>>>>, <<<<"A","c","y",";">>,<<1040>>>>,
      <<<<"A","f","r",";">>,<<55349,56580>>>>, <<<<"A","g","r","a","v","e">>,<<192>>>>,
      <<<<"A","g","r","a","v","e",";">>,<<192>>>>, <<<<"A","l","p","h","a",";">>,<<913>>>>,
      <<<<"A","m","a","c","r",";">>,<<256>>>>, <<<<"A","n","d",";">>,<<10835>>>>,
      <<<<"A","o","g","o","n",";">>,<<260>>>>, <<<<"A","o","p","f",";">>,<<55349,56632>>>>,
      <<<<"A","p","p","l","y","F","u","n","c","t","i","o","n",";">>,<<8289>>>>, <<<<"A","r","i","n","g">>,<<197>>>>,
      <<<<"A","r","i","n","g",";">>,<<197>>>>, <<<<"A","s","c","r",";">>,<<55349,56476>>>>,
      <<<<"A","s","s","i","g","n",";">>,<<8788>>>>, <<<<"A","t","i","l","d","e">>,<<195>>>>,
      <<<<"A","t","i","l","d","e",";">>,<<195>>>>, <<<<"A","u","m","l">>,<<196>>>>,
      <<<<"A","u","m","l",";">>,<<196>>>>, <<<<"B","a","c","k","s","l","a","s","h",";">>,<<8726>>>>,
      <<<<"B","a","r","v",";">>,<<10983>>>>, <<<<"B","a","r","w","e","d",";">>,<<8966>>>>,
      <<<<"B","c","y",";">>,<<1041>>>>, <<<<"B","e","c","a","u","s","e",";">>,<<8757>>>>,
      <<<<"B","e","r","n","o","u","l","l","i","s",";">>,<<8492>>>>, <<<<"B","e","t","a",";">>,<<914>>>>,
      <<<<"B","f","r",";">>,<<55349,56581>>>>, <<<<"B","o","p","f",";">>,<<55349,56633>>>>,
      <<<<"B","r","e","v","e",";">>,<<728>>>>, <<<<"B","s","c","r",";">>,<<8492>>>>,
      <<<<"B","u","m","p","e","q",";">>,<<8782>>>>, <<<<"C","H","c","y",";">>,<<1063>>>>,
      <<<<"C","O","P","Y">>,<<169>>>>, <<<<"C","O","P","Y",";">>,<<169>>>>,
      <<<<"C","a","c","u","t","e",";">>,<<262>>>>, <<<<"C","a","p",";">>,<<8914>>>>,
      <<<<"C","a","p","i","t","a","l","D","i","f","f","e","r","e","n","t","i","a","l","D",";">>,<<8517>>>>,
      <<<<"C","a","y","l","e","y","s",";">>,<<8493>>>>, <<<<"C","c","a","r","o","n",";">>,<<268>>>>,
      <<<<"C","c","e","d","i","l">>,<<199>>>>, <<<<"C","c","e","d","i","l",";">>,<<199>>>>,
      <<<<"C","c","i","r","c",";">>,<<264>>>>, <<<<"C","c","o","n","i","n","t",";">>,<<8752>>>>,
      <<<<"C","d","o","t",";">>,<<266>>>>, <<<<"C","e","d","i","l","l","a",";">>,<<184>>>>,
      <<<<"C","e","n","t","e","r","D","o","t",";">>,<<183>>>>, <<<<"C","f","r",";">>,<<8493>>>>,
      <<<<"C","h","i",";">>,<<935>>>>, <<<<"C","i","r","c","l","e","D","o","t",";">>,<<8857>>>>,
      <<<<"C","i","r","c","l","e","M","i","n","u","s",";">>,<<8854>>>>,
      <<<<"C","i","r","c","l","e","P","l","u","s",";">>,<<8853>>>>,
      <<<<"C","i","r","c","l","e","T","i","m","e","s",";">>,<<8855>>>>,
      <<<<"C","l","o","c","k","w","i","s","e","C","o","n","t","o","u","r","I","n","t","e","g","r","a","l",";">>,<<8754>>>>,
      <<<<"C","l","o","s","e","C","u","r","l","y","D","o","u","b","l","e","Q","u","o","t","e",";">>,<<8221>>>>,
      <<<<"C","l","o","s","e","C","u","r","l","y","Q","u","o","t","e",";">>,<<8217>>>>,
      <<<<"C","o","l","o","n",";">>,<<8759>>>>, <<<<"C","o","l","o","n","e",";">>,<<10868>>>>,
      <<<<"C","o","n","g","r","u","e","n","t",";">>,<<8801>>>>, <<<<"C","o","n","i","n","t",";">>,<<8751>>>>,
      <<<<"C","o","n","t","o","u","r","I","n","t","e","g","r","a","l",";">>,<<8750>>>>,
      <<<<"C","o","p","f",";">>,<<8450>>>>, <<<<"C","o","p","r","o","d","u","c","t",";">>,<<8720>>>>,
      <<<<"C","o","u","n","t","e","r","C","l","o","c","k","w","i","s","e","C","o","n","t","o","u","r","I","n","t","e","g","r","a","l",";">>,<<8755>>>>,
      <<<<"C","r","o","s","s",";">>,<<10799>>>>, <<<<"C","s","c","r",";">>,<<55349,56478>>>>,
      <<<<"C","u","p",";">>,<<8915>>>>, <<<<"C","u","p","C","a","p",";">>,<<8781>>>>, <<<<"D","D",";">>,<<8517>>>>,
      <<<<"D","D","o","t","r","a","h","d",";">>,<<10513>>>>, <<<<"D","J","c","y",";">>,<<1026>>>>,
      <<<<"D","S","c","y",";">>,<<1029>>>>, <<<<"D","Z","c","y",";">>,<<1039>>>>,
      <<<<"D","a","g","g","e","r",";">>,<<8225>>>>, <<<<"D","a","r","r",";">>,<<8609>>>>,
      <<<<"D","a","s","h","v",";">>,<<10980>>>>, <<<<"D","c","a","r","o","n",";">>,<<270>>>>,
      <<<<"D","c","y",";">>,<<1044>>>>, <<<<"D","e","l",";">>,<<8711>>>>, <<<<"D","e","l","t","a",";">>,<<916>>>>,
      <<<<"D","f","r",";">>,<<55349,56583>>>>,
      <<<<"D","i","a","c","r","i","t","i","c","a","l","A","c","u","t","e",";">>,<<180>>>>,
      <<<<"D","i","a","c","r","i","t","i","c","a","l","D","o","t",";">>,<<729>>>>,
      <<<<"D","i","a","c","r","i","t","i","c","a","l","D","o","u","b","l","e","A","c","u","t","e",";">>,<<733>>>>,
      <<<<"D","i","a","c","r","i","t","i","c","a","l","G","r","a","v","e",";">>,<<96>>>>,
      <<<<"D","i","a","c","r","i","t","i","c","a","l","T","i","l","d","e",";">>,<<732>>>>,
      <<<<"D","i","a","m","o","n","d",";">>,<<8900>>>>,
      <<<<"D","i","f","f","e","r","e","n","t","i","a","l","D",";">>,<<8518>>>>,
      <<<<"D","o","p","f",";">>,<<55349,56635>>>>, <<<<"D","o","t",";">>,<<168>>>>,
      <<<<"D","o","t","D","o","t",";">>,<<8412>>>>, <<<<"D","o","t","E","q","u","a","l",";">>,<<8784>>>>,
      <<<<"D","o","u","b","l","e","C","o","n","t","o","u","r","I","n","t","e","g","r","a","l",";">>,<<8751>>>>,
      <<<<"D","o","u","b","l","e","D","o","t",";">>,<<168>>>>,
      <<<<"D","o","u","b","l","e","D","o","w","n","A","r","r","o","w",";">>,<<8659>>>>,
      <<<<"D","o","u","b","l","e","L","e","f","t","A","r","r","o","w",";">>,<<8656>>>>,
      <<<<"D","o","u","b","l","e","L","e","f","t","R","i","g","h","t","A","r","r","o","w",";">>,<<8660>>>>,
      <<<<"D","o","u","b","l","e","L","e","f","t","T","e","e",";">>,<<10980>>>>,
      <<<<"D","o","u","b","l","e","L","o","n","g","L","e","f","t","A","r","r","o","w",";">>,<<10232>>>>,
      <<<<"D","o","u","b","l","e","L","o","n","g","L","e","f","t","R","i","g","h","t","A","r","r","o","w",";">>,<<10234>>>>,
      <<<<"D","o","u","b","l","e","L","o","n","g","R","i","g","h","t","A","r","r","o","w",";">>,<<10233>>>>,
      <<<<"D","o","u","b","l","e","R","i","g","h","t","A","r","r","o","w",";">>,<<8658>>>>,
      <<<<"D","o","u","b","l","e","R","i","g","h","t","T","e","e",";">>,<<8872>>>>,
      <<<<"D","o","u","b","l","e","U","p","A","r","r","o","w",";">>,<<8657>>>>,
      <<<<"D","o","u","b","l","e","U","p","D","o","w","n","A","r","r","o","w",";">>,<<8661>>>>,
      <<<<"D","o","u","b","l","e","V","e","r","t","i","c","a","l","B","a","r",";">>,<<8741>>>>,
      <<<<"D","o","w","n","A","r","r","o","w",";">>,<<8595>>>>,
      <<<<"D","o","w","n","A","r","r","o","w","B","a","r",";">>,<<10515>>>>,
      <<<<"D","o","w","n","A","r","r","o","w","U","p","A","r","r","o","w",";">>,<<8693>>>>,
      <<<<"D","o","w","n","B","r","e","v","e",";">>,<<785>>>>,
      <<<<"D","o","w","n","L","e","f","t","R","i","g","h","t","V","e","c","t","o","r",";">>,<<10576>>>>,
      <<<<"D","o","w","n","L","e","f","t","T","e","e","V","e","c","t","o","r",";">>,<<10590>>>>,
      <<<<"D","o","w","n","L","e","f","t","V","e","c","t","o","r",";">>,<<8637>>>>,
      <<<<"D","o","w","n","L","e","f","t","V","e","c","t","o","r","B","a","r",";">>,<<10582>>>>,
      <<<<"D","o","w","n","R","i","g","h","t","T","e","e","V","e","c","t","o","r",";">>,<<10591>>>>,
      <<<<"D","o","w","n","R","i","g","h","t","V","e","c","t","o","r",";">>,<<8641>>>>,
      <<<<"D","o","w","n","R","i","g","h","t","V","e","c","t","o","r","B","a","r",";">>,<<10583>>>>,
      <<<<"D","o","w","n","T","e","e",";">>,<<8868>>>>,
      <<<<"D","o","w","n","T","e","e","A","r","r","o","w",";">>,<<8615>>>>,
      <<<<"D","o","w","n","a","r","r","o","w",";">>,<<8659>>>>, <<<<"D","s","c","r",";">>,<<55349,56479>>>>,
      <<<<"D","s","t","r","o","k",";">>,<<272>>>>, <<<<"E","N","G",";">>,<<330>>>>, <<<<"E","T","H">>,<<208>>>>,
      <<<<"E","T","H",";">>,<<208>>>>, <<<<"E","a","c","u","t","e">>,<<201>>>>,
      <<<<"E","a","c","u","t","e",";">>,<<201>>>>, <<<<"E","c","a","r","o","n",";">>,<<282>>>>,
      <<<<"E","c","i","r","c">>,<<202>>>>, <<<<"E","c","i","r","c",";">>,<<202>>>>, <<<<"E","c","y",";">>,<<1069>>>>,
      <<<<"E","d","o","t",";">>,<<278>>>>, <<<<"E","f","r",";">>,<<55349,56584>>>>,
      <<<<"E","g","r","a","v","e">>,<<200>>>>, <<<<"E","g","r","a","v","e",";">>,<<200>>>>,
      <<<<"E","l","e","m","e","n","t",";">>,<<8712>>>>, <<<<"E","m","a","c","r",";">>,<<274>>>>,
      <<<<"E","m","p","t","y","S","m","a","l","l","S","q","u","a","r","e",";">>,<<9723>>>>,
      <<<<"E","m","p","t","y","V","e","r","y","S","m","a","l","l","S","q","u","a","r","e",";">>,<<9643>>>>,
      <<<<"E","o","g","o","n",";">>,<<280>>>>, <<<<"E","o","p","f",";">>,<<55349,56636>>>>,
      <<<<"E","p","s","i","l","o","n",";">>,<<917>>>>, <<<<"E","q","u","a","l",";">>,<<10869>>>>,
      <<<<"E","q","u","a","l","T","i","l","d","e",";">>,<<8770>>>>,
      <<<<"E","q","u","i","l","i","b","r","i","u","m",";">>,<<8652>>>>, <<<<"E","s","c","r",";">>,<<8496>>>>,
      <<<<"E","s","i","m",";">>,<<10867>>>>, <<<<"E","t","a",";">>,<<919>>>>, <<<<"E","u","m","l">>,<<203>>>>,
      <<<<"E","u","m","l",";">>,<<203>>>>, <<<<"E","x","i","s","t","s",";">>,<<8707>>>>,
      <<<<"E","x","p","o","n","e","n","t","i","a","l","E",";">>,<<8519>>>>, <<<<"F","c","y",";">>,<<1060>>>>,
      <<<<"F","f","r",";">>,<<55349,56585>>>>,
      <<<<"F","i","l","l","e","d","S","m","a","l","l","S","q","u","a","r","e",";">>,<<9724>>>>,
      <<<<"F","i","l","l","e","d","V","e","r","y","S","m","a","l","l","S","q","u","a","r","e",";">>,<<9642>>>>,
      <<<<"F","o","p","f",";">>,<<55349,56637>>>>, <<<<"F","o","r","A","l","l",";">>,<<8704>>>>,
      <<<<"F","o","u","r","i","e","r","t","r","f",";">>,<<8497>>>>, <<<<"F","s","c","r",";">>,<<8497>>>>,
      <<<<"G","J","c","y",";">>,<<1027>>>>, <<<<"G","T">>,<<62>>>>, <<<<"G","T",";">>,<<62>>>>,
      <<<<"G","a","m","m","a",";">>,<<915>>>>, <<<<"G","a","m","m","a","d",";">>,<<988>>>>,
      <<<<"G","b","r","e","v","e",";">>,<<286>>>>, <<<<"G","c","e","d","i","l",";">>,<<290>>>>,
      <<<<"G","c","i","r","c",";">>,<<284>>>>, <<<<"G","c","y",";">>,<<1043>>>>, <<<<"G","d","o","t",";">>,<<288>>>>,
      <<<<"G","f","r",";">>,<<55349,56586>>>>, <<<<"G","g",";">>,<<8921>>>>,
      <<<<"G","o","p","f",";">>,<<55349,56638>>>>,
      <<<<"G","r","e","a","t","e","r","E","q","u","a","l",";">>,<<8805>>>>,
      <<<<"G","r","e","a","t","e","r","E","q","u","a","l","L","e","s","s",";">>,<<8923>>>>,
      <<<<"G","r","e","a","t","e","r","F","u","l","l","E","q","u","a","l",";">>,<<8807>>>>,
      <<<<"G","r","e","a","t","e","r","G","r","e","a","t","e","r",";">>,<<10914>>>>,
      <<<<"G","r","e","a","t","e","r","L","e","s","s",";">>,<<8823>>>>,
      <<<<"G","r","e","a","t","e","r","S","l","a","n","t","E","q","u","a","l",";">>,<<10878>>>>,
      <<<<"G","r","e","a","t","e","r","T","i","l","d","e",";">>,<<8819>>>>,
      <<<<"G","s","c","r",";">>,<<55349,56482>>>>, <<<<"G","t",";">>,<<8811>>>>,
      <<<<"H","A","R","D","c","y",";">>,<<1066>>>>, <<<<"H","a","c","e","k",";">>,<<711>>>>,
      <<<<"H","a","t",";">>,<<94>>>>, <<<<"H","c","i","r","c",";">>,<<292>>>>, <<<<"H","f","r",";">>,<<8460>>>>,
      <<<<"H","i","l","b","e","r","t","S","p","a","c","e",";">>,<<8459>>>>, <<<<"H","o","p","f",";">>,<<8461>>>>,
      <<<<"H","o","r","i","z","o","n","t","a","l","L","i","n","e",";">>,<<9472>>>>,
      <<<<"H","s","c","r",";">>,<<8459>>>>, <<<<"H","s","t","r","o","k",";">>,<<294>>>>,
      <<<<"H","u","m","p","D","o","w","n","H","u","m","p",";">>,<<8782>>>>,
      <<<<"H","u","m","p","E","q","u","a","l",";">>,<<8783>>>>, <<<<"I","E","c","y",";">>,<<1045>>>>,
      <<<<"I","J","l","i","g",";">>,<<306>>>>, <<<<"I","O","c","y",";">>,<<1025>>>>,
      <<<<"I","a","c","u","t","e">>,<<205>>>>, <<<<"I","a","c","u","t","e",";">>,<<205>>>>,
      <<<<"I","c","i","r","c">>,<<206>>>>, <<<<"I","c","i","r","c",";">>,<<206>>>>, <<<<"I","c","y",";">>,<<1048>>>>,
      <<<<"I","d","o","t",";">>,<<304>>>>, <<<<"I","f","r",";">>,<<8465>>>>, <<<<"I","g","r","a","v","e">>,<<204>>>>,
      <<<<"I","g","r","a","v","e",";">>,<<204>>>>, <<<<"I","m",";">>,<<8465>>>>,
      <<<<"I","m","a","c","r",";">>,<<298>>>>, <<<<"I","m","a","g","i","n","a","r","y","I",";">>,<<8520>>>>,
      <<<<"I","m","p","l","i","e","s",";">>,<<8658>>>>, <<<<"I","n","t",";">>,<<8748>>>>,
      <<<<"I","n","t","e","g","r","a","l",";">>,<<8747>>>>,
      <<<<"I","n","t","e","r","s","e","c","t","i","o","n",";">>,<<8898>>>>,
      <<<<"I","n","v","i","s","i","b","l","e","C","o","m","m","a",";">>,<<8291>>>>,
      <<<<"I","n","v","i","s","i","b","l","e","T","i","m","e","s",";">>,<<8290>>>>,
      <<<<"I","o","g","o","n",";">>,<<302>>>>, <<<<"I","o","p","f",";">>,<<55349,56640>>>>,
      <<<<"I","o","t","a",";">>,<<921>>>>, <<<<"I","s","c","r",";">>,<<8464>>>>,
      <<<<"I","t","i","l","d","e",";">>,<<296>>>>, <<<<"I","u","k","c","y",";">>,<<1030>>>>,
      <<<<"I","u","m","l">>,<<207>>>>, <<<<"I","u","m","l",";">>,<<207>>>>, <<<<"J","c","i","r","c",";">>,<<308>>>>,
      <<<<"J","c","y",";">>,<<1049>>>>, <<<<"J","f","r",";">>,<<55349,56589>>>>,
      <<<<"J","o","p","f",";">>,<<55349,56641>>>>, <<<<"J","s","c","r",";">>,<<55349,56485>>>>,
      <<<<"J","s","e","r","c","y",";">>,<<1032>>>>, <<<<"J","u","k","c","y",";">>,<<1028>>>>,
      <<<<"K","H","c","y",";">>,<<1061>>>>, <<<<"K","J","c","y",";">>,<<1036>>>>,
      <<<<"K","a","p","p","a",";">>,<<922>>>>, <<<<"K","c","e","d","i","l",";">>,<<310>>>>,
      <<<<"K","c","y",";">>,<<1050>>>>, <<<<"K","f","r",";">>,<<55349,56590>>>>,
      <<<<"K","o","p","f",";">>,<<55349,56642>>>>, <<<<"K","s","c","r",";">>,<<55349,56486>>>>,
      <<<<"L","J","c","y",";">>,<<1033>>>>, <<<<"L","T">>,<<60>>>>, <<<<"L","T",";">>,<<60>>>>,
      <<<<"L","a","c","u","t","e",";">>,<<313>>>>, <<<<"L","a","m","b","d","a",";">>,<<923>>>>,
      <<<<"L","a","n","g",";">>,<<10218>>>>, <<<<"L","a","p","l","a","c","e","t","r","f",";">>,<<8466>>>>,
      <<<<"L","a","r","r",";">>,<<8606>>>>, <<<<"L","c","a","r","o","n",";">>,<<317>>>>,
      <<<<"L","c","e","d","i","l",";">>,<<315>>>>, <<<<"L","c","y",";">>,<<1051>>>>,
      <<<<"L","e","f","t","A","n","g","l","e","B","r","a","c","k","e","t",";">>,<<10216>>>>,
      <<<<"L","e","f","t","A","r","r","o","w",";">>,<<8592>>>>,
      <<<<"L","e","f","t","A","r","r","o","w","B","a","r",";">>,<<8676>>>>,
      <<<<"L","e","f","t","A","r","r","o","w","R","i","g","h","t","A","r","r","o","w",";">>,<<8646>>>>,
      <<<<"L","e","f","t","C","e","i","l","i","n","g",";">>,<<8968>>>>,
      <<<<"L","e","f","t","D","o","u","b","l","e","B","r","a","c","k","e","t",";">>,<<10214>>>>,
      <<<<"L","e","f","t","D","o","w","n","T","e","e","V","e","c","t","o","r",";">>,<<10593>>>>,
      <<<<"L","e","f","t","D","o","w","n","V","e","c","t","o","r",";">>,<<8643>>>>,
      <<<<"L","e","f","t","D","o","w","n","V","e","c","t","o","r","B","a","r",";">>,<<10585>>>>,
      <<<<"L","e","f","t","F","l","o","o","r",";">>,<<8970>>>>,
      <<<<"L","e","f","t","R","i","g","h","t","A","r","r","o","w",";">>,<<8596>>>>,
      <<<<"L","e","f","t","R","i","g","h","t","V","e","c","t","o","r",";">>,<<10574>>>>,
      <<<<"L","e","f","t","T","e","e",";">>,<<8867>>>>,
      <<<<"L","e","f","t","T","e","e","A","r","r","o","w",";">>,<<8612>>>>,
      <<<<"L","e","f","t","T","e","e","V","e","c","t","o","r",";">>,<<10586>>>>,
      <<<<"L","e","f","t","T","r","i","a","n","g","l","e",";">>,<<8882>>>>,
      <<<<"L","e","f","t","T","r","i","a","n","g","l","e","B","a","r",";">>,<<10703>>>>,
      <<<<"L","e","f","t","T","r","i","a","n","g","l","e","E","q","u","a","l",";">>,<<8884>>>>,
      <<<<"L","e","f","t","U","p","D","o","w","n","V","e","c","t","o","r",";">>,<<10577>>>>,
      <<<<"L","e","f","t","U","p","T","e","e","V","e","c","t","o","r",";">>,<<10592>>>>,
      <<<<"L","e","f","t","U","p","V","e","c","t","o","r",";">>,<<8639>>>>,
      <<<<"L","e","f","t","U","p","V","e","c","t","o","r","B","a","r",";">>,<<10584>>>>,
      <<<<"L","e","f","t","V","e","c","t","o","r",";">>,<<8636>>>>,
      <<<<"L","e","f","t","V","e","c","t","o","r","B","a","r",";">>,<<10578>>>>,
      <<<<"L","e","f","t","a","r","r","o","w",";">>,<<8656>>>>,
      <<<<"L","e","f","t","r","i","g","h","t","a","r","r","o","w",";">>,<<8660>>>>,
      <<<<"L","e","s","s","E","q","u","a","l","G","r","e","a","t","e","r",";">>,<<8922>>>>,
      <<<<"L","e","s","s","F","u","l","l","E","q","u","a","l",";">>,<<8806>>>>,
      <<<<"L","e","s","s","G","r","e","a","t","e","r",";">>,<<8822>>>>,
      <<<<"L","e","s","s","L","e","s","s",";">>,<<10913>>>>,
      <<<<"L","e","s","s","S","l","a","n","t","E","q","u","a","l",";">>,<<10877>>>>,
      <<<<"L","e","s","s","T","i","l","d","e",";">>,<<8818>>>>, <<<<"L","f","r",";">>,<<55349,56591>>>>,
      <<<<"L","l",";">>,<<8920>>>>, <<<<"L","l","e","f","t","a","r","r","o","w",";">>,<<8666>>>>,
      <<<<"L","m","i","d","o","t",";">>,<<319>>>>,
      <<<<"L","o","n","g","L","e","f","t","A","r","r","o","w",";">>,<<10229>>>>,
      <<<<"L","o","n","g","L","e","f","t","R","i","g","h","t","A","r","r","o","w",";">>,<<10231>>>>,
      <<<<"L","o","n","g","R","i","g","h","t","A","r","r","o","w",";">>,<<10230>>>>,
      <<<<"L","o","n","g","l","e","f","t","a","r","r","o","w",";">>,<<10232>>>>,
      <<<<"L","o","n","g","l","e","f","t","r","i","g","h","t","a","r","r","o","w",";">>,<<10234>>>>,
      <<<<"L","o","n","g","r","i","g","h","t","a","r","r","o","w",";">>,<<10233>>>>,
      <<<<"L","o","p","f",";">>,<<55349,56643>>>>,
      <<<<"L","o","w","e","r","L","e","f","t","A","r","r","o","w",";">>,<<8601>>>>,
      <<<<"L","o","w","e","r","R","i","g","h","t","A","r","r","o","w",";">>,<<8600>>>>,
      <<<<"L","s","c","r",";">>,<<8466>>>>, <<<<"L","s","h",";">>,<<8624>>>>,
      <<<<"L","s","t","r","o","k",";">>,<<321>>>>, <<<<"L","t",";">>,<<8810>>>>, <<<<"M","a","p",";">>,<<10501>>>>,
      <<<<"M","c","y",";">>,<<1052>>>>, <<<<"M","e","d","i","u","m","S","p","a","c","e",";">>,<<8287>>>>,
      <<<<"M","e","l","l","i","n","t","r","f",";">>,<<8499>>>>, <<<<"M","f","r",";">>,<<55349,56592>>>>,
      <<<<"M","i","n","u","s","P","l","u","s",";">>,<<8723>>>>, <<<<"M","o","p","f",";">>,<<55349,56644>>>>,
      <<<<"M","s","c","r",";">>,<<8499>>>>, <<<<"M","u",";">>,<<924>>>>, <<<<"N","J","c","y",";">>,<<1034>>>>,
      <<<<"N","a","c","u","t","e",";">>,<<323>>>>, <<<<"N","c","a","r","o","n",";">>,<<327>>>>,
      <<<<"N","c","e","d","i","l",";">>,<<325>>>>, <<<<"N","c","y",";">>,<<1053>>>>,
      <<<<"N","e","g","a","t","i","v","e","M","e","d","i","u","m","S","p","a","c","e",";">>,<<8203>>>>,
      <<<<"N","e","g","a","t","i","v","e","T","h","i","c","k","S","p","a","c","e",";">>,<<8203>>>>,
      <<<<"N","e","g","a","t","i","v","e","T","h","i","n","S","p","a","c","e",";">>,<<8203>>>>,
      <<<<"N","e","g","a","t","i","v","e","V","e","r","y","T","h","i","n","S","p","a","c","e",";">>,<<8203>>>>,
      <<<<"N","e","s","t","e","d","G","r","e","a","t","e","r","G","r","e","a","t","e","r",";">>,<<8811>>>>,
      <<<<"N","e","s","t","e","d","L","e","s","s","L","e","s","s",";">>,<<8810>>>>,
      <<<<"N","e","w","L","i","n","e",";">>,<<10>>>>, <<<<"N","f","r",";">>,<<55349,56593>>>>,
      <<<<"N","o","B","r","e","a","k",";">>,<<8288>>>>,
      <<<<"N","o","n","B","r","e","a","k","i","n","g","S","p","a","c","e",";">>,<<160>>>>,
      <<<<"N","o","p","f",";">>,<<8469>>>>, <<<<"N","o","t",";">>,<<10988>>>>,
      <<<<"N","o","t","C","o","n","g","r","u","e","n","t",";">>,<<8802>>>>,
      <<<<"N","o","t","C","u","p","C","a","p",";">>,<<8813>>>>,
      <<<<"N","o","t","D","o","u","b","l","e","V","e","r","t","i","c","a","l","B","a","r",";">>,<<8742>>>>,
      <<<<"N","o","t","E","l","e","m","e","n","t",";">>,<<8713>>>>,
      <<<<"N","o","t","E","q","u","a","l",";">>,<<8800>>>>,
      <<<<"N","o","t","E","q","u","a","l","T","i","l","d","e",";">>,<<8770,824>>>>,
      <<<<"N","o","t","E","x","i","s","t","s",";">>,<<8708>>>>,
      <<<<"N","o","t","G","r","e","a","t","e","r",";">>,<<8815>>>>,
      <<<<"N","o","t","G","r","e","a","t","e","r","E","q","u","a","l",";">>,<<8817>>>>,
      <<<<"N","o","t","G","r","e","a","t","e","r","F","u","l","l","E","q","u","a","l",";">>,<<8807,824>>>>,
      <<<<"N","o","t","G","r","e","a","t","e","r","G","r","e","a","t","e","r",";">>,<<8811,824>>>>,
      <<<<"N","o","t","G","r","e","a","t","e","r","L","e","s","s",";">>,<<8825>>>>,
      <<<<"N","o","t","G","r","e","a","t","e","r","S","l","a","n","t","E","q","u","a","l",";">>,<<10878,824>>>>,
      <<<<"N","o","t","G","r","e","a","t","e","r","T","i","l","d","e",";">>,<<8821>>>>,
      <<<<"N","o","t","H","u","m","p","D","o","w","n","H","u","m","p",";">>,<<8782,824>>>>,
      <<<<"N","o","t","H","u","m","p","E","q","u","a","l",";">>,<<8783,824>>>>,
      <<<<"N","o","t","L","e","f","t","T","r","i","a","n","g","l","e",";">>,<<8938>>>>,
      <<<<"N","o","t","L","e","f","t","T","r","i","a","n","g","l","e","B","a","r",";">>,<<10703,824>>>>,
      <<<<"N","o","t","L","e","f","t","T","r","i","a","n","g","l","e","E","q","u","a","l",";">>,<<8940>>>>,
      <<<<"N","o","t","L","e","s","s",";">>,<<8814>>>>,
      <<<<"N","o","t","L","e","s","s","E","q","u","a","l",";">>,<<8816>>>>,
      <<<<"N","o","t","L","e","s","s","G","r","e","a","t","e","r",";">>,<<8824>>>>,
      <<<<"N","o","t","L","e","s","s","L","e","s","s",";">>,<<8810,824>>>>,
      <<<<"N","o","t","L","e","s","s","S","l","a","n","t","E","q","u","a","l",";">>,<<10877,824>>>>,
      <<<<"N","o","t","L","e","s","s","T","i","l","d","e",";">>,<<8820>>>>,
      <<<<"N","o","t","N","e","s","t","e","d","G","r","e","a","t","e","r","G","r","e","a","t","e","r",";">>,<<10914,824>>>>,
      <<<<"N","o","t","N","e","s","t","e","d","L","e","s","s","L","e","s","s",";">>,<<10913,824>>>>,
      <<<<"N","o","t","P","r","e","c","e","d","e","s",";">>,<<8832>>>>,
      <<<<"N","o","t","P","r","e","c","e","d","e","s","E","q","u","a","l",";">>,<<10927,824>>>>,
      <<<<"N","o","t","P","r","e","c","e","d","e","s","S","l","a","n","t","E","q","u","a","l",";">>,<<8928>>>>,
      <<<<"N","o","t","R","e","v","e","r","s","e","E","l","e","m","e","n","t",";">>,<<8716>>>>,
      <<<<"N","o","t","R","i","g","h","t","T","r","i","a","n","g","l","e",";">>,<<8939>>>>,
      <<<<"N","o","t","R","i","g","h","t","T","r","i","a","n","g","l","e","B","a","r",";">>,<<10704,824>>>>,
      <<<<"N","o","t","R","i","g","h","t","T","r","i","a","n","g","l","e","E","q","u","a","l",";">>,<<8941>>>>,
      <<<<"N","o","t","S","q","u","a","r","e","S","u","b","s","e","t",";">>,<<8847,824>>>>,
      <<<<"N","o","t","S","q","u","a","r","e","S","u","b","s","e","t","E","q","u","a","l",";">>,<<8930>>>>,
      <<<<"N","o","t","S","q","u","a","r","e","S","u","p","e","r","s","e","t",";">>,<<8848,824>>>>,
      <<<<"N","o","t","S","q","u","a","r","e","S","u","p","e","r","s","e","t","E","q","u","a","l",";">>,<<8931>>>>,
      <<<<"N","o","t","S","u","b","s","e","t",";">>,<<8834,8402>>>>,
      <<<<"N","o","t","S","u","b","s","e","t","E","q","u","a","l",";">>,<<8840>>>>,
      <<<<"N","o","t","S","u","c","c","e","e","d","s",";">>,<<8833>>>>,
      <<<<"N","o","t","S","u","c","c","e","e","d","s","E","q","u","a","l",";">>,<<10928,824>>>>,
      <<<<"N","o","t","S","u","c","c","e","e","d","s","S","l","a","n","t","E","q","u","a","l",";">>,<<8929>>>>,
      <<<<"N","o","t","S","u","c","c","e","e","d","s","T","i","l","d","e",";">>,<<8831,824>>>>,
      <<<<"N","o","t","S","u","p","e","r","s","e","t",";">>,<<8835,8402>>>>,
      <<<<"N","o","t","S","u","p","e","r","s","e","t","E","q","u","a","l",";">>,<<8841>>>>,
      <<<<"N","o","t","T","i","l","d","e",";">>,<<8769>>>>,
      <<<<"N","o","t","T","i","l","d","e","E","q","u","a","l",";">>,<<8772>>>>,
      <<<<"N","o","t","T","i","l","d","e","F","u","l","l","E","q","u","a","l",";">>,<<8775>>>>,
      <<<<"N","o","t","T","i","l","d","e","T","i","l","d","e",";">>,<<8777>>>>,
      <<<<"N","o","t","V","e","r","t","i","c","a","l","B","a","r",";">>,<<8740>>>>,
      <<<<"N","s","c","r",";">>,<<55349,56489>>>>, <<<<"N","t","i","l","d","e">>,<<209>>>>,
      <<<<"N","t","i","l","d","e",";">>,<<209>>>>, <<<<"N","u",";">>,<<925>>>>,
      <<<<"O","E","l","i","g",";">>,<<338>>>>, <<<<"O","a","c","u","t","e">>,<<211>>>>,
      <<<<"O","a","c","u","t","e",";">>,<<211>>>>, <<<<"O","c","i","r","c">>,<<212>>>>,
      <<<<"O","c","i","r","c",";">>,<<212>>>>, <<<<"O","c","y",";">>,<<1054>>>>,
      <<<<"O","d","b","l","a","c",";">>,<<336>>>>, <<<<"O","f","r",";">>,<<55349,56594>>>>,
      <<<<"O","g","r","a","v","e">>,<<210>>>>, <<<<"O","g","r","a","v","e",";">>,<<210>>>>,
      <<<<"O","m","a","c","r",";">>,<<332>>>>, <<<<"O","m","e","g","a",";">>,<<937>>>>,
      <<<<"O","m","i","c","r","o","n",";">>,<<927>>>>, <<<<"O","o","p","f",";">>,<<55349,56646>>>>,
      <<<<"O","p","e","n","C","u","r","l","y","D","o","u","b","l","e","Q","u","o","t","e",";">>,<<8220>>>>,
      <<<<"O","p","e","n","C","u","r","l","y","Q","u","o","t","e",";">>,<<8216>>>>, <<<<"O","r",";">>,<<10836>>>>,
      <<<<"O","s","c","r",";">>,<<55349,56490>>>>, <<<<"O","s","l","a","s","h">>,<<216>>>>,
      <<<<"O","s","l","a","s","h",";">>,<<216>>>>, <<<<"O","t","i","l","d","e">>,<<213>>>>,
      <<<<"O","t","i","l","d","e",";">>,<<213>>>>, <<<<"O","t","i","m","e","s",";">>,<<10807>>>>,
      <<<<"O","u","m","l">>,<<214>>>>, <<<<"O","u","m","l",";">>,<<214>>>>,
      <<<<"O","v","e","r","B","a","r",";">>,<<8254>>>>, <<<<"O","v","e","r","B","r","a","c","e",";">>,<<9182>>>>,
      <<<<"O","v","e","r","B","r","a","c","k","e","t",";">>,<<9140>>>>,
      <<<<"O","v","e","r","P","a","r","e","n","t","h","e","s","i","s",";">>,<<9180>>>>,
      <<<<"P","a","r","t","i","a","l","D",";">>,<<8706>>>>, <<<<"P","c","y",";">>,<<1055>>>>,
      <<<<"P","f","r",";">>,<<55349,56595>>>>, <<<<"P","h","i",";">>,<<934>>>>, <<<<"P","i",";">>,<<928>>>>,
      <<<<"P","l","u","s","M","i","n","u","s",";">>,<<177>>>>,
      <<<<"P","o","i","n","c","a","r","e","p","l","a","n","e",";">>,<<8460>>>>, <<<<"P","o","p","f",";">>,<<8473>>>>,
      <<<<"P","r",";">>,<<10939>>>>, <<<<"P","r","e","c","e","d","e","s",";">>,<<8826>>>>,
      <<<<"P","r","e","c","e","d","e","s","E","q","u","a","l",";">>,<<10927>>>>,
      <<<<"P","r","e","c","e","d","e","s","S","l","a","n","t","E","q","u","a","l",";">>,<<8828>>>>,
      <<<<"P","r","e","c","e","d","e","s","T","i","l","d","e",";">>,<<8830>>>>,
      <<<<"P","r","i","m","e",";">>,<<8243>>>>, <<<<"P","r","o","d","u","c","t",";">>,<<8719>>>>,
      <<<<"P","r","o","p","o","r","t","i","o","n",";">>,<<8759>>>>,
      <<<<"P","r","o","p","o","r","t","i","o","n","a","l",";">>,<<8733>>>>,
      <<<<"P","s","c","r",";">>,<<55349,56491>>>>, <<<<"P","s","i",";">>,<<936>>>>, <<<<"Q","U","O","T">>,<<34>>>>,
      <<<<"Q","U","O","T",";">>,<<34>>>>, <<<<"Q","f","r",";">>,<<55349,56596>>>>,
      <<<<"Q","o","p","f",";">>,<<8474>>>>, <<<<"Q","s","c","r",";">>,<<55349,56492>>>>,
      <<<<"R","B","a","r","r",";">>,<<10512>>>>, <<<<"R","E","G">>,<<174>>>>, <<<<"R","E","G",";">>,<<174>>>>,
      <<<<"R","a","c","u","t","e",";">>,<<340>>>>, <<<<"R","a","n","g",";">>,<<10219>>>>,
      <<<<"R","a","r","r",";">>,<<8608>>>>, <<<<"R","a","r","r","t","l",";">>,<<10518>>>>,
      <<<<"R","c","a","r","o","n",";">>,<<344>>>>, <<<<"R","c","e","d","i","l",";">>,<<342>>>>,
      <<<<"R","c","y",";">>,<<1056>>>>, <<<<"R","e",";">>,<<8476>>>>,
      <<<<"R","e","v","e","r","s","e","E","l","e","m","e","n","t",";">>,<<8715>>>>,
      <<<<"R","e","v","e","r","s","e","E","q","u","i","l","i","b","r","i","u","m",";">>,<<8651>>>>,
      <<<<"R","e","v","e","r","s","e","U","p","E","q","u","i","l","i","b","r","i","u","m",";">>,<<10607>>>>,
      <<<<"R","f","r",";">>,<<8476>>>>, <<<<"R","h","o",";">>,<<929>>>>,
      <<<<"R","i","g","h","t","A","n","g","l","e","B","r","a","c","k","e","t",";">>,<<10217>>>>,
      <<<<"R","i","g","h","t","A","r","r","o","w",";">>,<<8594>>>>,
      <<<<"R","i","g","h","t","A","r","r","o","w","B","a","r",";">>,<<8677>>>>,
      <<<<"R","i","g","h","t","A","r","r","o","w","L","e","f","t","A","r","r","o","w",";">>,<<8644>>>>,
      <<<<"R","i","g","h","t","C","e","i","l","i","n","g",";">>,<<8969>>>>,
      <<<<"R","i","g","h","t","D","o","u","b","l","e","B","r","a","c","k","e","t",";">>,<<10215>>>>,
      <<<<"R","i","g","h","t","D","o","w","n","T","e","e","V","e","c","t","o","r",";">>,<<10589>>>>,
      <<<<"R","i","g","h","t","D","o","w","n","V","e","c","t","o","r",";">>,<<8642>>>>,
      <<<<"R","i","g","h","t","D","o","w","n","V","e","c","t","o","r","B","a","r",";">>,<<10581>>>>,
      <<<<"R","i","g","h","t","F","l","o","o","r",";">>,<<8971>>>>,
      <<<<"R","i","g","h","t","T","e","e",";">>,<<8866>>>>,
      <<<<"R","i","g","h","t","T","e","e","A","r","r","o","w",";">>,<<8614>>>>,
      <<<<"R","i","g","h","t","T","e","e","V","e","c","t","o","r",";">>,<<10587>>>>,
      <<<<"R","i","g","h","t","T","r","i","a","n","g","l","e",";">>,<<8883>>>>,
      <<<<"R","i","g","h","t","T","r","i","a","n","g","l","e","B","a","r",";">>,<<10704>>>>,
      <<<<"R","i","g","h","t","T","r","i","a","n","g","l","e","E","q","u","a","l",";">>,<<8885>>>>,
      <<<<"R","i","g","h","t","U","p","D","o","w","n","V","e","c","t","o","r",";">>,<<10575>>>>,
      <<<<"R","i","g","h","t","U","p","T","e","e","V","e","c","t","o","r",";">>,<<10588>>>>,
      <<<<"R","i","g","h","t","U","p","V","e","c","t","o","r",";">>,<<8638>>>>,
      <<<<"R","i","g","h","t","U","p","V","e","c","t","o","r","B","a","r",";">>,<<10580>>>>,
      <<<<"R","i","g","h","t","V","e","c","t","o","r",";">>,<<8640>>>>,
      <<<<"R","i","g","h","t","V","e","c","t","o","r","B","a","r",";">>,<<10579>>>>,
      <<<<"R","i","g","h","t","a","r","r","o","w",";">>,<<8658>>>>, <<<<"R","o","p","f",";">>,<<8477>>>>,
      <<<<"R","o","u","n","d","I","m","p","l","i","e","s",";">>,<<10608>>>>,
      <<<<"R","r","i","g","h","t","a","r","r","o","w",";">>,<<8667>>>>, <<<<"R","s","c","r",";">>,<<8475>>>>,
      <<<<"R","s","h",";">>,<<8625>>>>, <<<<"R","u","l","e","D","e","l","a","y","e","d",";">>,<<10740>>>>,
      <<<<"S","H","C","H","c","y",";">>,<<1065>>>>, <<<<"S","H","c","y",";">>,<<1064>>>>,
      <<<<"S","O","F","T","c","y",";">>,<<1068>>>>, <<<<"S","a","c","u","t","e",";">>,<<346>>>>,
      <<<<"S","c",";">>,<<10940>>>>, <<<<"S","c","a","r","o","n",";">>,<<352>>>>,
      <<<<"S","c","e","d","i","l",";">>,<<350>>>>, <<<<"S","c","i","r","c",";">>,<<348>>>>,
      <<<<"S","c","y",";">>,<<1057>>>>, <<<<"S","f","r",";">>,<<55349,56598>>>>,
      <<<<"S","h","o","r","t","D","o","w","n","A","r","r","o","w",";">>,<<8595>>>>,
      <<<<"S","h","o","r","t","L","e","f","t","A","r","r","o","w",";">>,<<8592>>>>,
      <<<<"S","h","o","r","t","R","i","g","h","t","A","r","r","o","w",";">>,<<8594>>>>,
      <<<<"S","h","o","r","t","U","p","A","r","r","o","w",";">>,<<8593>>>>, <<<<"S","i","g","m","a",";">>,<<931>>>>,
      <<<<"S","m","a","l","l","C","i","r","c","l","e",";">>,<<8728>>>>, <<<<"S","o","p","f",";">>,<<55349,56650>>>>,
      <<<<"S","q","r","t",";">>,<<8730>>>>, <<<<"S","q","u","a","r","e",";">>,<<9633>>>>,
      <<<<"S","q","u","a","r","e","I","n","t","e","r","s","e","c","t","i","o","n",";">>,<<8851>>>>,
      <<<<"S","q","u","a","r","e","S","u","b","s","e","t",";">>,<<8847>>>>,
      <<<<"S","q","u","a","r","e","S","u","b","s","e","t","E","q","u","a","l",";">>,<<8849>>>>,
      <<<<"S","q","u","a","r","e","S","u","p","e","r","s","e","t",";">>,<<8848>>>>,
      <<<<"S","q","u","a","r","e","S","u","p","e","r","s","e","t","E","q","u","a","l",";">>,<<8850>>>>,
      <<<<"S","q","u","a","r","e","U","n","i","o","n",";">>,<<8852>>>>, <<<<"S","s","c","r",";">>,<<55349,56494>>>>,
      <<<<"S","t","a","r",";">>,<<8902>>>>, <<<<"S","u","b",";">>,<<8912>>>>,
      <<<<"S","u","b","s","e","t",";">>,<<8912>>>>, <<<<"S","u","b","s","e","t","E","q","u","a","l",";">>,<<8838>>>>,
      <<<<"S","u","c","c","e","e","d","s",";">>,<<8827>>>>,
      <<<<"S","u","c","c","e","e","d","s","E","q","u","a","l",";">>,<<10928>>>>,
      <<<<"S","u","c","c","e","e","d","s","S","l","a","n","t","E","q","u","a","l",";">>,<<8829>>>>,
      <<<<"S","u","c","c","e","e","d","s","T","i","l","d","e",";">>,<<8831>>>>,
      <<<<"S","u","c","h","T","h","a","t",";">>,<<8715>>>>, <<<<"S","u","m",";">>,<<8721>>>>,
      <<<<"S","u","p",";">>,<<8913>>>>, <<<<"S","u","p","e","r","s","e","t",";">>,<<8835>>>>,
      <<<<"S","u","p","e","r","s","e","t","E","q","u","a","l",";">>,<<8839>>>>,
      <<<<"S","u","p","s","e","t",";">>,<<8913>>>>, <<<<"T","H","O","R","N">>,<<222>>>>,
      <<<<"T","H","O","R","N",";">>,<<222>>>>, <<<<"T","R","A","D","E",";">>,<<8482>>>>,
      <<<<"T","S","H","c","y",";">>,<<1035>>>>, <<<<"T","S","c","y",";">>,<<1062>>>>, <<<<"T","a","b",";">>,<<9>>>>,
      <<<<"T","a","u",";">>,<<932>>>>, <<<<"T","c","a","r","o","n",";">>,<<356>>>>,
      <<<<"T","c","e","d","i","l",";">>,<<354>>>>, <<<<"T","c","y",";">>,<<1058>>>>,
      <<<<"T","f","r",";">>,<<55349,56599>>>>, <<<<"T","h","e","r","e","f","o","r","e",";">>,<<8756>>>>,
      <<<<"T","h","e","t","a",";">>,<<920>>>>, <<<<"T","h","i","c","k","S","p","a","c","e",";">>,<<8287,8202>>>>,
      <<<<"T","h","i","n","S","p","a","c","e",";">>,<<8201>>>>, <<<<"T","i","l","d","e",";">>,<<8764>>>>,
      <<<<"T","i","l","d","e","E","q","u","a","l",";">>,<<8771>>>>,
      <<<<"T","i","l","d","e","F","u","l","l","E","q","u","a","l",";">>,<<8773>>>>,
      <<<<"T","i","l","d","e","T","i","l","d","e",";">>,<<8776>>>>, <<<<"T","o","p","f",";">>,<<55349,56651>>>>,
      <<<<"T","r","i","p","l","e","D","o","t",";">>,<<8411>>>>, <<<<"T","s","c","r",";">>,<<55349,56495>>>>,
      <<<<"T","s","t","r","o","k",";">>,<<358>>>>, <<<<"U","a","c","u","t","e">>,<<218>>>>,
      <<<<"U","a","c","u","t","e",";">>,<<218>>>>, <<<<"U","a","r","r",";">>,<<8607>>>>,
      <<<<"U","a","r","r","o","c","i","r",";">>,<<10569>>>>, <<<<"U","b","r","c","y",";">>,<<1038>>>>,
      <<<<"U","b","r","e","v","e",";">>,<<364>>>>, <<<<"U","c","i","r","c">>,<<219>>>>,
      <<<<"U","c","i","r","c",";">>,<<219>>>>, <<<<"U","c","y",";">>,<<1059>>>>,
      <<<<"U","d","b","l","a","c",";">>,<<368>>>>, <<<<"U","f","r",";">>,<<55349,56600>>>>,
      <<<<"U","g","r","a","v","e">>,<<217>>>>, <<<<"U","g","r","a","v","e",";">>,<<217>>>>,
      <<<<"U","m","a","c","r",";">>,<<362>>>>, <<<<"U","n","d","e","r","B","a","r",";">>,<<95>>>>,
      <<<<"U","n","d","e","r","B","r","a","c","e",";">>,<<9183>>>>,
      <<<<"U","n","d","e","r","B","r","a","c","k","e","t",";">>,<<9141>>>>,
      <<<<"U","n","d","e","r","P","a","r","e","n","t","h","e","s","i","s",";">>,<<9181>>>>,
      <<<<"U","n","i","o","n",";">>,<<8899>>>>, <<<<"U","n","i","o","n","P","l","u","s",";">>,<<8846>>>>,
      <<<<"U","o","g","o","n",";">>,<<370>>>>, <<<<"U","o","p","f",";">>,<<55349,56652>>>>,
      <<<<"U","p","A","r","r","o","w",";">>,<<8593>>>>,
      <<<<"U","p","A","r","r","o","w","B","a","r",";">>,<<10514>>>>,
      <<<<"U","p","A","r","r","o","w","D","o","w","n","A","r","r","o","w",";">>,<<8645>>>>,
      <<<<"U","p","D","o","w","n","A","r","r","o","w",";">>,<<8597>>>>,
      <<<<"U","p","E","q","u","i","l","i","b","r","i","u","m",";">>,<<10606>>>>,
      <<<<"U","p","T","e","e",";">>,<<8869>>>>, <<<<"U","p","T","e","e","A","r","r","o","w",";">>,<<8613>>>>,
      <<<<"U","p","a","r","r","o","w",";">>,<<8657>>>>,
      <<<<"U","p","d","o","w","n","a","r","r","o","w",";">>,<<8661>>>>,
      <<<<"U","p","p","e","r","L","e","f","t","A","r","r","o","w",";">>,<<8598>>>>,
      <<<<"U","p","p","e","r","R","i","g","h","t","A","r","r","o","w",";">>,<<8599>>>>,
      <<<<"U","p","s","i",";">>,<<978>>>>, <<<<"U","p","s","i","l","o","n",";">>,<<933>>>>,
      <<<<"U","r","i","n","g",";">>,<<366>>>>, <<<<"U","s","c","r",";">>,<<55349,56496>>>>,
      <<<<"U","t","i","l","d","e",";">>,<<360>>>>, <<<<"U","u","m","l">>,<<220>>>>,
      <<<<"U","u","m","l",";">>,<<220>>>>, <<<<"V","D","a","s","h",";">>,<<8875>>>>,
      <<<<"V","b","a","r",";">>,<<10987>>>>, <<<<"V","c","y",";">>,<<1042>>>>,
      <<<<"V","d","a","s","h",";">>,<<8873>>>>, <<<<"V","d","a","s","h","l",";">>,<<10982>>>>,
      <<<<"V","e","e",";">>,<<8897>>>>, <<<<"V","e","r","b","a","r",";">>,<<8214>>>>,
      <<<<"V","e","r","t",";">>,<<8214>>>>, <<<<"V","e","r","t","i","c","a","l","B","a","r",";">>,<<8739>>>>,
      <<<<"V","e","r","t","i","c","a","l","L","i","n","e",";">>,<<124>>>>,
      <<<<"V","e","r","t","i","c","a","l","S","e","p","a","r","a","t","o","r",";">>,<<10072>>>>,
      <<<<"V","e","r","t","i","c","a","l","T","i","l","d","e",";">>,<<8768>>>>,
      <<<<"V","e","r","y","T","h","i","n","S","p","a","c","e",";">>,<<8202>>>>,
      <<<<"V","f","r",";">>,<<55349,56601>>>>, <<<<"V","o","p","f",";">>,<<55349,56653>>>>,
      <<<<"V","s","c","r",";">>,<<55349,56497>>>>, <<<<"V","v","d","a","s","h",";">>,<<8874>>>>,
      <<<<"W","c","i","r","c",";">>,<<372>>>>, <<<<"W","e","d","g","e",";">>,<<8896>>>>,
      <<<<"W","f","r",";">>,<<55349,56602>>>>, <<<<"W","o","p","f",";">>,<<55349,56654>>>>,
      <<<<"W","s","c","r",";">>,<<55349,56498>>>>, <<<<"X","f","r",";">>,<<55349,56603>>>>,
      <<<<"X","i",";">>,<<926>>>>, <<<<"X","o","p","f",";">>,<<55349,56655>>>>,
      <<<<"X","s","c","r",";">>,<<55349,56499>>>>, <<<<"Y","A","c","y",";">>,<<1071>>>>,
      <<<<"Y","I","c","y",";">>,<<1031>>>>, <<<<"Y","U","c","y",";">>,<<1070>>>>,
      <<<<"Y","a","c","u","t","e">>,<<221>>>>, <<<<"Y","a","c","u","t","e",";">>,<<221>>>>,
      <<<<"Y","c","i","r","c",";">>,<<374>>>>, <<<<"Y","c","y",";">>,<<1067>>>>,
      <<<<"Y","f","r",";">>,<<55349,56604>>>>, <<<<"Y","o","p","f",";">>,<<55349,56656>>>>,
      <<<<"Y","s","c","r",";">>,<<55349,56500>>>>, <<<<"Y","u","m","l",";">>,<<376>>>>,
      <<<<"Z","H","c","y",";">>,<<1046>>>>, <<<<"Z","a","c","u","t","e",";">>,<<377>>>>,
      <<<<"Z","c","a","r","o","n",";">>,<<381>>>>, <<<<"Z","c","y",";">>,<<1047>>>>,
      <<<<"Z","d","o","t",";">>,<<379>>>>,
      <<<<"Z","e","r","o","W","i","d","t","h","S","p","a","c","e",";">>,<<8203>>>>,
      <<<<"Z","e","t","a",";">>,<<918>>>>, <<<<"Z","f","r",";">>,<<8488>>>>, <<<<"Z","o","p","f",";">>,<<8484>>>>,
      <<<<"Z","s","c","r",";">>,<<55349,56501>>>>, <<<<"a","a","c","u","t","e">>,<<225>>>>,
      <<<<"a","a","c","u","t","e",";">>,<<225>>>>, <<<<"a","b","r","e","v","e",";">>,<<259>>>>,
      <<<<"a","c",";">>,<<8766>>>>, <<<<"a","c","E",";">>,<<8766,819>>>>, <<<<"a","c","d",";">>,<<8767>>>>,
      <<<<"a","c","i","r","c">>,<<226>>>>, <<<<"a","c","i","r","c",";">>,<<226>>>>,
      <<<<"a","c","u","t","e">>,<<180>>>>, <<<<"a","c","u","t","e",";">>,<<180>>>>, <<<<"a","c","y",";">>,<<1072>>>>,
      <<<<"a","e","l","i","g">>,<<230>>>>, <<<<"a","e","l","i","g",";">>,<<230>>>>, <<<<"a","f",";">>,<<8289>>>>,
      <<<<"a","f","r",";">>,<<55349,56606>>>>, <<<<"a","g","r","a","v","e">>,<<224>>>>,
      <<<<"a","g","r","a","v","e",";">>,<<224>>>>, <<<<"a","l","e","f","s","y","m",";">>,<<8501>>>>,
      <<<<"a","l","e","p","h",";">>,<<8501>>>>, <<<<"a","l","p","h","a",";">>,<<945>>>>,
      <<<<"a","m","a","c","r",";">>,<<257>>>>, <<<<"a","m","a","l","g",";">>,<<10815>>>>, <<<<"a","m","p">>,<<38>>>>,
      <<<<"a","m","p",";">>,<<38>>>>, <<<<"a","n","d",";">>,<<8743>>>>,
      <<<<"a","n","d","a","n","d",";">>,<<10837>>>>, <<<<"a","n","d","d",";">>,<<10844>>>>,
      <<<<"a","n","d","s","l","o","p","e",";">>,<<10840>>>>, <<<<"a","n","d","v",";">>,<<10842>>>>,
      <<<<"a","n","g",";">>,<<8736>>>>, <<<<"a","n","g","e",";">>,<<10660>>>>,
      <<<<"a","n","g","l","e",";">>,<<8736>>>>, <<<<"a","n","g","m","s","d",";">>,<<8737>>>>,
      <<<<"a","n","g","m","s","d","a","a",";">>,<<10664>>>>, <<<<"a","n","g","m","s","d","a","b",";">>,<<10665>>>>,
      <<<<"a","n","g","m","s","d","a","c",";">>,<<10666>>>>, <<<<"a","n","g","m","s","d","a","d",";">>,<<10667>>>>,
      <<<<"a","n","g","m","s","d","a","e",";">>,<<10668>>>>, <<<<"a","n","g","m","s","d","a","f",";">>,<<10669>>>>,
      <<<<"a","n","g","m","s","d","a","g",";">>,<<10670>>>>, <<<<"a","n","g","m","s","d","a","h",";">>,<<10671>>>>,
      <<<<"a","n","g","r","t",";">>,<<8735>>>>, <<<<"a","n","g","r","t","v","b",";">>,<<8894>>>>,
      <<<<"a","n","g","r","t","v","b","d",";">>,<<10653>>>>, <<<<"a","n","g","s","p","h",";">>,<<8738>>>>,
      <<<<"a","n","g","s","t",";">>,<<197>>>>, <<<<"a","n","g","z","a","r","r",";">>,<<9084>>>>,
      <<<<"a","o","g","o","n",";">>,<<261>>>>, <<<<"a","o","p","f",";">>,<<55349,56658>>>>,
      <<<<"a","p",";">>,<<8776>>>>, <<<<"a","p","E",";">>,<<10864>>>>, <<<<"a","p","a","c","i","r",";">>,<<10863>>>>,
      <<<<"a","p","e",";">>,<<8778>>>>, <<<<"a","p","i","d",";">>,<<8779>>>>, <<<<"a","p","o","s",";">>,<<39>>>>,
      <<<<"a","p","p","r","o","x",";">>,<<8776>>>>, <<<<"a","p","p","r","o","x","e","q",";">>,<<8778>>>>,
      <<<<"a","r","i","n","g">>,<<229>>>>, <<<<"a","r","i","n","g",";">>,<<229>>>>,
      <<<<"a","s","c","r",";">>,<<55349,56502>>>>, <<<<"a","s","t",";">>,<<42>>>>,
      <<<<"a","s","y","m","p",";">>,<<8776>>>>, <<<<"a","s","y","m","p","e","q",";">>,<<8781>>>>,
      <<<<"a","t","i","l","d","e">>,<<227>>>>, <<<<"a","t","i","l","d","e",";">>,<<227>>>>,
      <<<<"a","u","m","l">>,<<228>>>>, <<<<"a","u","m","l",";">>,<<228>>>>,
      <<<<"a","w","c","o","n","i","n","t",";">>,<<8755>>>>, <<<<"a","w","i","n","t",";">>,<<10769>>>>,
      <<<<"b","N","o","t",";">>,<<10989>>>>, <<<<"b","a","c","k","c","o","n","g",";">>,<<8780>>>>,
      <<<<"b","a","c","k","e","p","s","i","l","o","n",";">>,<<1014>>>>,
      <<<<"b","a","c","k","p","r","i","m","e",";">>,<<8245>>>>, <<<<"b","a","c","k","s","i","m",";">>,<<8765>>>>,
      <<<<"b","a","c","k","s","i","m","e","q",";">>,<<8909>>>>, <<<<"b","a","r","v","e","e",";">>,<<8893>>>>,
      <<<<"b","a","r","w","e","d",";">>,<<8965>>>>, <<<<"b","a","r","w","e","d","g","e",";">>,<<8965>>>>,
      <<<<"b","b","r","k",";">>,<<9141>>>>, <<<<"b","b","r","k","t","b","r","k",";">>,<<9142>>>>,
      <<<<"b","c","o","n","g",";">>,<<8780>>>>, <<<<"b","c","y",";">>,<<1073>>>>,
      <<<<"b","d","q","u","o",";">>,<<8222>>>>, <<<<"b","e","c","a","u","s",";">>,<<8757>>>>,
      <<<<"b","e","c","a","u","s","e",";">>,<<8757>>>>, <<<<"b","e","m","p","t","y","v",";">>,<<10672>>>>,
      <<<<"b","e","p","s","i",";">>,<<1014>>>>, <<<<"b","e","r","n","o","u",";">>,<<8492>>>>,
      <<<<"b","e","t","a",";">>,<<946>>>>, <<<<"b","e","t","h",";">>,<<8502>>>>,
      <<<<"b","e","t","w","e","e","n",";">>,<<8812>>>>, <<<<"b","f","r",";">>,<<55349,56607>>>>,
      <<<<"b","i","g","c","a","p",";">>,<<8898>>>>, <<<<"b","i","g","c","i","r","c",";">>,<<9711>>>>,
      <<<<"b","i","g","c","u","p",";">>,<<8899>>>>, <<<<"b","i","g","o","d","o","t",";">>,<<10752>>>>,
      <<<<"b","i","g","o","p","l","u","s",";">>,<<10753>>>>,
      <<<<"b","i","g","o","t","i","m","e","s",";">>,<<10754>>>>,
      <<<<"b","i","g","s","q","c","u","p",";">>,<<10758>>>>, <<<<"b","i","g","s","t","a","r",";">>,<<9733>>>>,
      <<<<"b","i","g","t","r","i","a","n","g","l","e","d","o","w","n",";">>,<<9661>>>>,
      <<<<"b","i","g","t","r","i","a","n","g","l","e","u","p",";">>,<<9651>>>>,
      <<<<"b","i","g","u","p","l","u","s",";">>,<<10756>>>>, <<<<"b","i","g","v","e","e",";">>,<<8897>>>>,
      <<<<"b","i","g","w","e","d","g","e",";">>,<<8896>>>>, <<<<"b","k","a","r","o","w",";">>,<<10509>>>>,
      <<<<"b","l","a","c","k","l","o","z","e","n","g","e",";">>,<<10731>>>>,
      <<<<"b","l","a","c","k","s","q","u","a","r","e",";">>,<<9642>>>>,
      <<<<"b","l","a","c","k","t","r","i","a","n","g","l","e",";">>,<<9652>>>>,
      <<<<"b","l","a","c","k","t","r","i","a","n","g","l","e","d","o","w","n",";">>,<<9662>>>>,
      <<<<"b","l","a","c","k","t","r","i","a","n","g","l","e","l","e","f","t",";">>,<<9666>>>>,
      <<<<"b","l","a","c","k","t","r","i","a","n","g","l","e","r","i","g","h","t",";">>,<<9656>>>>,
      <<<<"b","l","a","n","k",";">>,<<9251>>>>, <<<<"b","l","k","1","2",";">>,<<9618>>>>,
      <<<<"b","l","k","1","4",";">>,<<9617>>>>, <<<<"b","l","k","3","4",";">>,<<9619>>>>,
      <<<<"b","l","o","c","k",";">>,<<9608>>>>, <<<<"b","n","e",";">>,<<61,8421>>>>,
      <<<<"b","n","e","q","u","i","v",";">>,<<8801,8421>>>>, <<<<"b","n","o","t",";">>,<<8976>>>>,
      <<<<"b","o","p","f",";">>,<<55349,56659>>>>, <<<<"b","o","t",";">>,<<8869>>>>,
      <<<<"b","o","t","t","o","m",";">>,<<8869>>>>, <<<<"b","o","w","t","i","e",";">>,<<8904>>>>,
      <<<<"b","o","x","D","L",";">>,<<9559>>>>, <<<<"b","o","x","D","R",";">>,<<9556>>>>,
      <<<<"b","o","x","D","l",";">>,<<9558>>>>, <<<<"b","o","x","D","r",";">>,<<9555>>>>,
      <<<<"b","o","x","H",";">>,<<9552>>>>, <<<<"b","o","x","H","D",";">>,<<9574>>>>,
      <<<<"b","o","x","H","U",";">>,<<9577>>>>, <<<<"b","o","x","H","d",";">>,<<9572>>>>,
      <<<<"b","o","x","H","u",";">>,<<9575>>>>, <<<<"b","o","x","U","L",";">>,<<9565>>>>,
      <<<<"b","o","x","U","R",";">>,<<9562>>>>, <<<<"b","o","x","U","l",";">>,<<9564>>>>,
      <<<<"b","o","x","U","r",";">>,<<9561>>>>, <<<<"b","o","x","V",";">>,<<9553>>>>,
      <<<<"b","o","x","V","H",";">>,<<9580>>>>, <<<<"b","o","x","V","L",";">>,<<9571>>>>,
      <<<<"b","o","x","V","R",";">>,<<9568>>>>, <<<<"b","o","x","V","h",";">>,<<9579>>>>,
      <<<<"b","o","x","V","l",";">>,<<9570>>>>, <<<<"b","o","x","V","r",";">>,<<9567>>>>,
      <<<<"b","o","x","b","o","x",";">>,<<10697>>>>, <<<<"b","o","x","d","L",";">>,<<9557>>>>,
      <<<<"b","o","x","d","R",";">>,<<9554>>>>, <<<<"b","o","x","d","l",";">>,<<9488>>>>,
      <<<<"b","o","x","d","r",";">>,<<9484>>>>, <<<<"b","o","x","h",";">>,<<9472>>>>,
      <<<<"b","o","x","h","D",";">>,<<9573>>>>, <<<<"b","o","x","h","U",";">>,<<9576>>>>,
      <<<<"b","o","x","h","d",";">>,<<9516>>>>, <<<<"b","o","x","h","u",";">>,<<9524>>>>,
      <<<<"b","o","x","m","i","n","u","s",";">>,<<8863>>>>, <<<<"b","o","x","p","l","u","s",";">>,<<8862>>>>,
      <<<<"b","o","x","t","i","m","e","s",";">>,<<8864>>>>, <<<<"b","o","x","u","L",";">>,<<9563>>>>,
      <<<<"b","o","x","u","R",";">>,<<9560>>>>, <<<<"b","o","x","u","l",";">>,<<9496>>>>,
      <<<<"b","o","x","u","r",";">>,<<9492>>>>, <<<<"b","o","x","v",";">>,<<9474>>>>,
      <<<<"b","o","x","v","H",";">>,<<9578>>>>, <<<<"b","o","x","v","L",";">>,<<9569>>>>,
      <<<<"b","o","x","v","R",";">>,<<9566>>>>, <<<<"b","o","x","v","h",";">>,<<9532>>>>,
      <<<<"b","o","x","v","l",";">>,<<9508>>>>, <<<<"b","o","x","v","r",";">>,<<9500>>>>,
      <<<<"b","p","r","i","m","e",";">>,<<8245>>>>, <<<<"b","r","e","v","e",";">>,<<728>>>>,
      <<<<"b","r","v","b","a","r">>,<<166>>>>, <<<<"b","r","v","b","a","r",";">>,<<166>>>>,
      <<<<"b","s","c","r",";">>,<<55349,56503>>>>, <<<<"b","s","e","m","i",";">>,<<8271>>>>,
      <<<<"b","s","i","m",";">>,<<8765>>>>, <<<<"b","s","i","m","e",";">>,<<8909>>>>,
      <<<<"b","s","o","l",";">>,<<92>>>>, <<<<"b","s","o","l","b",";">>,<<10693>>>>,
      <<<<"b","s","o","l","h","s","u","b",";">>,<<10184>>>>, <<<<"b","u","l","l",";">>,<<8226>>>>,
      <<<<"b","u","l","l","e","t",";">>,<<8226>>>>, <<<<"b","u","m","p",";">>,<<8782>>>>,
      <<<<"b","u","m","p","E",";">>,<<10926>>>>, <<<<"b","u","m","p","e",";">>,<<8783>>>>,
      <<<<"b","u","m","p","e","q",";">>,<<8783>>>>, <<<<"c","a","c","u","t","e",";">>,<<263>>>>,
      <<<<"c","a","p",";">>,<<8745>>>>, <<<<"c","a","p","a","n","d",";">>,<<10820>>>>,
      <<<<"c","a","p","b","r","c","u","p",";">>,<<10825>>>>, <<<<"c","a","p","c","a","p",";">>,<<10827>>>>,
      <<<<"c","a","p","c","u","p",";">>,<<10823>>>>, <<<<"c","a","p","d","o","t",";">>,<<10816>>>>,
      <<<<"c","a","p","s",";">>,<<8745,65024>>>>, <<<<"c","a","r","e","t",";">>,<<8257>>>>,
      <<<<"c","a","r","o","n",";">>,<<711>>>>, <<<<"c","c","a","p","s",";">>,<<10829>>>>,
      <<<<"c","c","a","r","o","n",";">>,<<269>>>>, <<<<"c","c","e","d","i","l">>,<<231>>>>,
      <<<<"c","c","e","d","i","l",";">>,<<231>>>>, <<<<"c","c","i","r","c",";">>,<<265>>>>,
      <<<<"c","c","u","p","s",";">>,<<10828>>>>, <<<<"c","c","u","p","s","s","m",";">>,<<10832>>>>,
      <<<<"c","d","o","t",";">>,<<267>>>>, <<<<"c","e","d","i","l">>,<<184>>>>,
      <<<<"c","e","d","i","l",";">>,<<184>>>>, <<<<"c","e","m","p","t","y","v",";">>,<<10674>>>>,
      <<<<"c","e","n","t">>,<<162>>>>, <<<<"c","e","n","t",";">>,<<162>>>>,
      <<<<"c","e","n","t","e","r","d","o","t",";">>,<<183>>>>, <<<<"c","f","r",";">>,<<55349,56608>>>>,
      <<<<"c","h","c","y",";">>,<<1095>>>>, <<<<"c","h","e","c","k",";">>,<<10003>>>>,
      <<<<"c","h","e","c","k","m","a","r","k",";">>,<<10003>>>>, <<<<"c","h","i",";">>,<<967>>>>,
      <<<<"c","i","r",";">>,<<9675>>>>, <<<<"c","i","r","E",";">>,<<10691>>>>, <<<<"c","i","r","c",";">>,<<710>>>>,
      <<<<"c","i","r","c","e","q",";">>,<<8791>>>>,
      <<<<"c","i","r","c","l","e","a","r","r","o","w","l","e","f","t",";">>,<<8634>>>>,
      <<<<"c","i","r","c","l","e","a","r","r","o","w","r","i","g","h","t",";">>,<<8635>>>>,
      <<<<"c","i","r","c","l","e","d","R",";">>,<<174>>>>, <<<<"c","i","r","c","l","e","d","S",";">>,<<9416>>>>,
      <<<<"c","i","r","c","l","e","d","a","s","t",";">>,<<8859>>>>,
      <<<<"c","i","r","c","l","e","d","c","i","r","c",";">>,<<8858>>>>,
      <<<<"c","i","r","c","l","e","d","d","a","s","h",";">>,<<8861>>>>, <<<<"c","i","r","e",";">>,<<8791>>>>,
      <<<<"c","i","r","f","n","i","n","t",";">>,<<10768>>>>, <<<<"c","i","r","m","i","d",";">>,<<10991>>>>,
      <<<<"c","i","r","s","c","i","r",";">>,<<10690>>>>, <<<<"c","l","u","b","s",";">>,<<9827>>>>,
      <<<<"c","l","u","b","s","u","i","t",";">>,<<9827>>>>, <<<<"c","o","l","o","n",";">>,<<58>>>>,
      <<<<"c","o","l","o","n","e",";">>,<<8788>>>>, <<<<"c","o","l","o","n","e","q",";">>,<<8788>>>>,
      <<<<"c","o","m","m","a",";">>,<<44>>>>, <<<<"c","o","m","m","a","t",";">>,<<64>>>>,
      <<<<"c","o","m","p",";">>,<<8705>>>>, <<<<"c","o","m","p","f","n",";">>,<<8728>>>>,
      <<<<"c","o","m","p","l","e","m","e","n","t",";">>,<<8705>>>>,
      <<<<"c","o","m","p","l","e","x","e","s",";">>,<<8450>>>>, <<<<"c","o","n","g",";">>,<<8773>>>>,
      <<<<"c","o","n","g","d","o","t",";">>,<<10861>>>>, <<<<"c","o","n","i","n","t",";">>,<<8750>>>>,
      <<<<"c","o","p","f",";">>,<<55349,56660>>>>, <<<<"c","o","p","r","o","d",";">>,<<8720>>>>,
      <<<<"c","o","p","y">>,<<169>>>>, <<<<"c","o","p","y",";">>,<<169>>>>,
      <<<<"c","o","p","y","s","r",";">>,<<8471>>>>, <<<<"c","r","a","r","r",";">>,<<8629>>>>,
      <<<<"c","r","o","s","s",";">>,<<10007>>>>, <<<<"c","s","c","r",";">>,<<55349,56504>>>>,
      <<<<"c","s","u","b",";">>,<<10959>>>>, <<<<"c","s","u","b","e",";">>,<<10961>>>>,
      <<<<"c","s","u","p",";">>,<<10960>>>>, <<<<"c","s","u","p","e",";">>,<<10962>>>>,
      <<<<"c","t","d","o","t",";">>,<<8943>>>>, <<<<"c","u","d","a","r","r","l",";">>,<<10552>>>>,
      <<<<"c","u","d","a","r","r","r",";">>,<<10549>>>>, <<<<"c","u","e","p","r",";">>,<<8926>>>>,
      <<<<"c","u","e","s","c",";">>,<<8927>>>>, <<<<"c","u","l","a","r","r",";">>,<<8630>>>>,
      <<<<"c","u","l","a","r","r","p",";">>,<<10557>>>>, <<<<"c","u","p",";">>,<<8746>>>>,
      <<<<"c","u","p","b","r","c","a","p",";">>,<<10824>>>>, <<<<"c","u","p","c","a","p",";">>,<<10822>>>>,
      <<<<"c","u","p","c","u","p",";">>,<<10826>>>>, <<<<"c","u","p","d","o","t",";">>,<<8845>>>>,
      <<<<"c","u","p","o","r",";">>,<<10821>>>>, <<<<"c","u","p","s",";">>,<<8746,65024>>>>,
      <<<<"c","u","r","a","r","r",";">>,<<8631>>>>, <<<<"c","u","r","a","r","r","m",";">>,<<10556>>>>,
      <<<<"c","u","r","l","y","e","q","p","r","e","c",";">>,<<8926>>>>,
      <<<<"c","u","r","l","y","e","q","s","u","c","c",";">>,<<8927>>>>,
      <<<<"c","u","r","l","y","v","e","e",";">>,<<8910>>>>,
      <<<<"c","u","r","l","y","w","e","d","g","e",";">>,<<8911>>>>, <<<<"c","u","r","r","e","n">>,<<164>>>>,
      <<<<"c","u","r","r","e","n",";">>,<<164>>>>,
      <<<<"c","u","r","v","e","a","r","r","o","w","l","e","f","t",";">>,<<8630>>>>,
      <<<<"c","u","r","v","e","a","r","r","o","w","r","i","g","h","t",";">>,<<8631>>>>,
      <<<<"c","u","v","e","e",";">>,<<8910>>>>, <<<<"c","u","w","e","d",";">>,<<8911>>>>,
      <<<<"c","w","c","o","n","i","n","t",";">>,<<8754>>>>, <<<<"c","w","i","n","t",";">>,<<8753>>>>,
      <<<<"c","y","l","c","t","y",";">>,<<9005>>>>, <<<<"d","A","r","r",";">>,<<8659>>>>,
      <<<<"d","H","a","r",";">>,<<10597>>>>, <<<<"d","a","g","g","e","r",";">>,<<8224>>>>,
      <<<<"d","a","l","e","t","h",";">>,<<8504>>>>, <<<<"d","a","r","r",";">>,<<8595>>>>,
      <<<<"d","a","s","h",";">>,<<8208>>>>, <<<<"d","a","s","h","v",";">>,<<8867>>>>,
      <<<<"d","b","k","a","r","o","w",";">>,<<10511>>>>, <<<<"d","b","l","a","c",";">>,<<733>>>>,
      <<<<"d","c","a","r","o","n",";">>,<<271>>>>, <<<<"d","c","y",";">>,<<1076>>>>, <<<<"d","d",";">>,<<8518>>>>,
      <<<<"d","d","a","g","g","e","r",";">>,<<8225>>>>, <<<<"d","d","a","r","r",";">>,<<8650>>>>,
      <<<<"d","d","o","t","s","e","q",";">>,<<10871>>>>, <<<<"d","e","g">>,<<176>>>>,
      <<<<"d","e","g",";">>,<<176>>>>, <<<<"d","e","l","t","a",";">>,<<948>>>>,
      <<<<"d","e","m","p","t","y","v",";">>,<<10673>>>>, <<<<"d","f","i","s","h","t",";">>,<<10623>>>>,
      <<<<"d","f","r",";">>,<<55349,56609>>>>, <<<<"d","h","a","r","l",";">>,<<8643>>>>,
      <<<<"d","h","a","r","r",";">>,<<8642>>>>, <<<<"d","i","a","m",";">>,<<8900>>>>,
      <<<<"d","i","a","m","o","n","d",";">>,<<8900>>>>,
      <<<<"d","i","a","m","o","n","d","s","u","i","t",";">>,<<9830>>>>, <<<<"d","i","a","m","s",";">>,<<9830>>>>,
      <<<<"d","i","e",";">>,<<168>>>>, <<<<"d","i","g","a","m","m","a",";">>,<<989>>>>,
      <<<<"d","i","s","i","n",";">>,<<8946>>>>, <<<<"d","i","v",";">>,<<247>>>>,
      <<<<"d","i","v","i","d","e">>,<<247>>>>, <<<<"d","i","v","i","d","e",";">>,<<247>>>>,
      <<<<"d","i","v","i","d","e","o","n","t","i","m","e","s",";">>,<<8903>>>>,
      <<<<"d","i","v","o","n","x",";">>,<<8903>>>>, <<<<"d","j","c","y",";">>,<<1106>>>>,
      <<<<"d","l","c","o","r","n",";">>,<<8990>>>>, <<<<"d","l","c","r","o","p",";">>,<<8973>>>>,
      <<<<"d","o","l","l","a","r",";">>,<<36>>>>, <<<<"d","o","p","f",";">>,<<55349,56661>>>>,
      <<<<"d","o","t",";">>,<<729>>>>, <<<<"d","o","t","e","q",";">>,<<8784>>>>,
      <<<<"d","o","t","e","q","d","o","t",";">>,<<8785>>>>, <<<<"d","o","t","m","i","n","u","s",";">>,<<8760>>>>,
      <<<<"d","o","t","p","l","u","s",";">>,<<8724>>>>, <<<<"d","o","t","s","q","u","a","r","e",";">>,<<8865>>>>,
      <<<<"d","o","u","b","l","e","b","a","r","w","e","d","g","e",";">>,<<8966>>>>,
      <<<<"d","o","w","n","a","r","r","o","w",";">>,<<8595>>>>,
      <<<<"d","o","w","n","d","o","w","n","a","r","r","o","w","s",";">>,<<8650>>>>,
      <<<<"d","o","w","n","h","a","r","p","o","o","n","l","e","f","t",";">>,<<8643>>>>,
      <<<<"d","o","w","n","h","a","r","p","o","o","n","r","i","g","h","t",";">>,<<8642>>>>,
      <<<<"d","r","b","k","a","r","o","w",";">>,<<10512>>>>, <<<<"d","r","c","o","r","n",";">>,<<8991>>>>,
      <<<<"d","r","c","r","o","p",";">>,<<8972>>>>, <<<<"d","s","c","r",";">>,<<55349,56505>>>>,
      <<<<"d","s","c","y",";">>,<<1109>>>>, <<<<"d","s","o","l",";">>,<<10742>>>>,
      <<<<"d","s","t","r","o","k",";">>,<<273>>>>, <<<<"d","t","d","o","t",";">>,<<8945>>>>,
      <<<<"d","t","r","i",";">>,<<9663>>>>, <<<<"d","t","r","i","f",";">>,<<9662>>>>,
      <<<<"d","u","a","r","r",";">>,<<8693>>>>, <<<<"d","u","h","a","r",";">>,<<10607>>>>,
      <<<<"d","w","a","n","g","l","e",";">>,<<10662>>>>, <<<<"d","z","c","y",";">>,<<1119>>>>,
      <<<<"d","z","i","g","r","a","r","r",";">>,<<10239>>>>, <<<<"e","D","D","o","t",";">>,<<10871>>>>,
      <<<<"e","D","o","t",";">>,<<8785>>>>, <<<<"e","a","c","u","t","e">>,<<233>>>>,
      <<<<"e","a","c","u","t","e",";">>,<<233>>>>, <<<<"e","a","s","t","e","r",";">>,<<10862>>>>,
      <<<<"e","c","a","r","o","n",";">>,<<283>>>>, <<<<"e","c","i","r",";">>,<<8790>>>>,
      <<<<"e","c","i","r","c">>,<<234>>>>, <<<<"e","c","i","r","c",";">>,<<234>>>>,
      <<<<"e","c","o","l","o","n",";">>,<<8789>>>>, <<<<"e","c","y",";">>,<<1101>>>>,
      <<<<"e","d","o","t",";">>,<<279>>>>, <<<<"e","e",";">>,<<8519>>>>, <<<<"e","f","D","o","t",";">>,<<8786>>>>,
      <<<<"e","f","r",";">>,<<55349,56610>>>>, <<<<"e","g",";">>,<<10906>>>>,
      <<<<"e","g","r","a","v","e">>,<<232>>>>, <<<<"e","g","r","a","v","e",";">>,<<232>>>>,
      <<<<"e","g","s",";">>,<<10902>>>>, <<<<"e","g","s","d","o","t",";">>,<<10904>>>>,
      <<<<"e","l",";">>,<<10905>>>>, <<<<"e","l","i","n","t","e","r","s",";">>,<<9191>>>>,
      <<<<"e","l","l",";">>,<<8467>>>>, <<<<"e","l","s",";">>,<<10901>>>>,
      <<<<"e","l","s","d","o","t",";">>,<<10903>>>>, <<<<"e","m","a","c","r",";">>,<<275>>>>,
      <<<<"e","m","p","t","y",";">>,<<8709>>>>, <<<<"e","m","p","t","y","s","e","t",";">>,<<8709>>>>,
      <<<<"e","m","p","t","y","v",";">>,<<8709>>>>, <<<<"e","m","s","p","1","3",";">>,<<8196>>>>,
      <<<<"e","m","s","p","1","4",";">>,<<8197>>>>, <<<<"e","m","s","p",";">>,<<8195>>>>,
      <<<<"e","n","g",";">>,<<331>>>>, <<<<"e","n","s","p",";">>,<<8194>>>>, <<<<"e","o","g","o","n",";">>,<<281>>>>,
      <<<<"e","o","p","f",";">>,<<55349,56662>>>>, <<<<"e","p","a","r",";">>,<<8917>>>>,
      <<<<"e","p","a","r","s","l",";">>,<<10723>>>>, <<<<"e","p","l","u","s",";">>,<<10865>>>>,
      <<<<"e","p","s","i",";">>,<<949>>>>, <<<<"e","p","s","i","l","o","n",";">>,<<949>>>>,
      <<<<"e","p","s","i","v",";">>,<<1013>>>>, <<<<"e","q","c","i","r","c",";">>,<<8790>>>>,
      <<<<"e","q","c","o","l","o","n",";">>,<<8789>>>>, <<<<"e","q","s","i","m",";">>,<<8770>>>>,
      <<<<"e","q","s","l","a","n","t","g","t","r",";">>,<<10902>>>>,
      <<<<"e","q","s","l","a","n","t","l","e","s","s",";">>,<<10901>>>>, <<<<"e","q","u","a","l","s",";">>,<<61>>>>,
      <<<<"e","q","u","e","s","t",";">>,<<8799>>>>, <<<<"e","q","u","i","v",";">>,<<8801>>>>,
      <<<<"e","q","u","i","v","D","D",";">>,<<10872>>>>, <<<<"e","q","v","p","a","r","s","l",";">>,<<10725>>>>,
      <<<<"e","r","D","o","t",";">>,<<8787>>>>, <<<<"e","r","a","r","r",";">>,<<10609>>>>,
      <<<<"e","s","c","r",";">>,<<8495>>>>, <<<<"e","s","d","o","t",";">>,<<8784>>>>,
      <<<<"e","s","i","m",";">>,<<8770>>>>, <<<<"e","t","a",";">>,<<951>>>>, <<<<"e","t","h">>,<<240>>>>,
      <<<<"e","t","h",";">>,<<240>>>>, <<<<"e","u","m","l">>,<<235>>>>, <<<<"e","u","m","l",";">>,<<235>>>>,
      <<<<"e","u","r","o",";">>,<<8364>>>>, <<<<"e","x","c","l",";">>,<<33>>>>,
      <<<<"e","x","i","s","t",";">>,<<8707>>>>, <<<<"e","x","p","e","c","t","a","t","i","o","n",";">>,<<8496>>>>,
      <<<<"e","x","p","o","n","e","n","t","i","a","l","e",";">>,<<8519>>>>,
      <<<<"f","a","l","l","i","n","g","d","o","t","s","e","q",";">>,<<8786>>>>, <<<<"f","c","y",";">>,<<1092>>>>,
      <<<<"f","e","m","a","l","e",";">>,<<9792>>>>, <<<<"f","f","i","l","i","g",";">>,<<64259>>>>,
      <<<<"f","f","l","i","g",";">>,<<64256>>>>, <<<<"f","f","l","l","i","g",";">>,<<64260>>>>,
      <<<<"f","f","r",";">>,<<55349,56611>>>>, <<<<"f","i","l","i","g",";">>,<<64257>>>>,
      <<<<"f","j","l","i","g",";">>,<<102,106>>>>, <<<<"f","l","a","t",";">>,<<9837>>>>,
      <<<<"f","l","l","i","g",";">>,<<64258>>>>, <<<<"f","l","t","n","s",";">>,<<9649>>>>,
      <<<<"f","n","o","f",";">>,<<402>>>>, <<<<"f","o","p","f",";">>,<<55349,56663>>>>,
      <<<<"f","o","r","a","l","l",";">>,<<8704>>>>, <<<<"f","o","r","k",";">>,<<8916>>>>,
      <<<<"f","o","r","k","v",";">>,<<10969>>>>, <<<<"f","p","a","r","t","i","n","t",";">>,<<10765>>>>,
      <<<<"f","r","a","c","1","2">>,<<189>>>>, <<<<"f","r","a","c","1","2",";">>,<<189>>>>,
      <<<<"f","r","a","c","1","3",";">>,<<8531>>>>, <<<<"f","r","a","c","1","4">>,<<188>>>>,
      <<<<"f","r","a","c","1","4",";">>,<<188>>>>, <<<<"f","r","a","c","1","5",";">>,<<8533>>>>,
      <<<<"f","r","a","c","1","6",";">>,<<8537>>>>, <<<<"f","r","a","c","1","8",";">>,<<8539>>>>,
      <<<<"f","r","a","c","2","3",";">>,<<8532>>>>, <<<<"f","r","a","c","2","5",";">>,<<8534>>>>,
      <<<<"f","r","a","c","3","4">>,<<190>>>>, <<<<"f","r","a","c","3","4",";">>,<<190>>>>,
      <<<<"f","r","a","c","3","5",";">>,<<8535>>>>, <<<<"f","r","a","c","3","8",";">>,<<8540>>>>,
      <<<<"f","r","a","c","4","5",";">>,<<8536>>>>, <<<<"f","r","a","c","5","6",";">>,<<8538>>>>,
      <<<<"f","r","a","c","5","8",";">>,<<8541>>>>, <<<<"f","r","a","c","7","8",";">>,<<8542>>>>,
      <<<<"f","r","a","s","l",";">>,<<8260>>>>, <<<<"f","r","o","w","n",";">>,<<8994>>>>,
      <<<<"f","s","c","r",";">>,<<55349,56507>>>>, <<<<"g","E",";">>,<<8807>>>>, <<<<"g","E","l",";">>,<<10892>>>>,
      <<<<"g","a","c","u","t","e",";">>,<<501>>>>, <<<<"g","a","m","m","a",";">>,<<947>>>>,
      <<<<"g","a","m","m","a","d",";">>,<<989>>>>, <<<<"g","a","p",";">>,<<10886>>>>,
      <<<<"g","b","r","e","v","e",";">>,<<287>>>>, <<<<"g","c","i","r","c",";">>,<<285>>>>,
      <<<<"g","c","y",";">>,<<1075>>>>, <<<<"g","d","o","t",";">>,<<289>>>>, <<<<"g","e",";">>,<<8805>>>>,
      <<<<"g","e","l",";">>,<<8923>>>>, <<<<"g","e","q",";">>,<<8805>>>>, <<<<"g","e","q","q",";">>,<<8807>>>>,
      <<<<"g","e","q","s","l","a","n","t",";">>,<<10878>>>>, <<<<"g","e","s",";">>,<<10878>>>>,
      <<<<"g","e","s","c","c",";">>,<<10921>>>>, <<<<"g","e","s","d","o","t",";">>,<<10880>>>>,
      <<<<"g","e","s","d","o","t","o",";">>,<<10882>>>>, <<<<"g","e","s","d","o","t","o","l",";">>,<<10884>>>>,
      <<<<"g","e","s","l",";">>,<<8923,65024>>>>, <<<<"g","e","s","l","e","s",";">>,<<10900>>>>,
      <<<<"g","f","r",";">>,<<55349,56612>>>>, <<<<"g","g",";">>,<<8811>>>>, <<<<"g","g","g",";">>,<<8921>>>>,
      <<<<"g","i","m","e","l",";">>,<<8503>>>>, <<<<"g","j","c","y",";">>,<<1107>>>>, <<<<"g","l",";">>,<<8823>>>>,
      <<<<"g","l","E",";">>,<<10898>>>>, <<<<"g","l","a",";">>,<<10917>>>>, <<<<"g","l","j",";">>,<<10916>>>>,
      <<<<"g","n","E",";">>,<<8809>>>>, <<<<"g","n","a","p",";">>,<<10890>>>>,
      <<<<"g","n","a","p","p","r","o","x",";">>,<<10890>>>>, <<<<"g","n","e",";">>,<<10888>>>>,
      <<<<"g","n","e","q",";">>,<<10888>>>>, <<<<"g","n","e","q","q",";">>,<<8809>>>>,
      <<<<"g","n","s","i","m",";">>,<<8935>>>>, <<<<"g","o","p","f",";">>,<<55349,56664>>>>,
      <<<<"g","r","a","v","e",";">>,<<96>>>>, <<<<"g","s","c","r",";">>,<<8458>>>>,
      <<<<"g","s","i","m",";">>,<<8819>>>>, <<<<"g","s","i","m","e",";">>,<<10894>>>>,
      <<<<"g","s","i","m","l",";">>,<<10896>>>>, <<<<"g","t">>,<<62>>>>, <<<<"g","t",";">>,<<62>>>>,
      <<<<"g","t","c","c",";">>,<<10919>>>>, <<<<"g","t","c","i","r",";">>,<<10874>>>>,
      <<<<"g","t","d","o","t",";">>,<<8919>>>>, <<<<"g","t","l","P","a","r",";">>,<<10645>>>>,
      <<<<"g","t","q","u","e","s","t",";">>,<<10876>>>>, <<<<"g","t","r","a","p","p","r","o","x",";">>,<<10886>>>>,
      <<<<"g","t","r","a","r","r",";">>,<<10616>>>>, <<<<"g","t","r","d","o","t",";">>,<<8919>>>>,
      <<<<"g","t","r","e","q","l","e","s","s",";">>,<<8923>>>>,
      <<<<"g","t","r","e","q","q","l","e","s","s",";">>,<<10892>>>>,
      <<<<"g","t","r","l","e","s","s",";">>,<<8823>>>>, <<<<"g","t","r","s","i","m",";">>,<<8819>>>>,
      <<<<"g","v","e","r","t","n","e","q","q",";">>,<<8809,65024>>>>, <<<<"g","v","n","E",";">>,<<8809,65024>>>>,
      <<<<"h","A","r","r",";">>,<<8660>>>>, <<<<"h","a","i","r","s","p",";">>,<<8202>>>>,
      <<<<"h","a","l","f",";">>,<<189>>>>, <<<<"h","a","m","i","l","t",";">>,<<8459>>>>,
      <<<<"h","a","r","d","c","y",";">>,<<1098>>>>, <<<<"h","a","r","r",";">>,<<8596>>>>,
      <<<<"h","a","r","r","c","i","r",";">>,<<10568>>>>, <<<<"h","a","r","r","w",";">>,<<8621>>>>,
      <<<<"h","b","a","r",";">>,<<8463>>>>, <<<<"h","c","i","r","c",";">>,<<293>>>>,
      <<<<"h","e","a","r","t","s",";">>,<<9829>>>>, <<<<"h","e","a","r","t","s","u","i","t",";">>,<<9829>>>>,
      <<<<"h","e","l","l","i","p",";">>,<<8230>>>>, <<<<"h","e","r","c","o","n",";">>,<<8889>>>>,
      <<<<"h","f","r",";">>,<<55349,56613>>>>, <<<<"h","k","s","e","a","r","o","w",";">>,<<10533>>>>,
      <<<<"h","k","s","w","a","r","o","w",";">>,<<10534>>>>, <<<<"h","o","a","r","r",";">>,<<8703>>>>,
      <<<<"h","o","m","t","h","t",";">>,<<8763>>>>,
      <<<<"h","o","o","k","l","e","f","t","a","r","r","o","w",";">>,<<8617>>>>,
      <<<<"h","o","o","k","r","i","g","h","t","a","r","r","o","w",";">>,<<8618>>>>,
      <<<<"h","o","p","f",";">>,<<55349,56665>>>>, <<<<"h","o","r","b","a","r",";">>,<<8213>>>>,
      <<<<"h","s","c","r",";">>,<<55349,56509>>>>, <<<<"h","s","l","a","s","h",";">>,<<8463>>>>,
      <<<<"h","s","t","r","o","k",";">>,<<295>>>>, <<<<"h","y","b","u","l","l",";">>,<<8259>>>>,
      <<<<"h","y","p","h","e","n",";">>,<<8208>>>>, <<<<"i","a","c","u","t","e">>,<<237>>>>,
      <<<<"i","a","c","u","t","e",";">>,<<237>>>>, <<<<"i","c",";">>,<<8291>>>>, <<<<"i","c","i","r","c">>,<<238>>>>,
      <<<<"i","c","i","r","c",";">>,<<238>>>>, <<<<"i","c","y",";">>,<<1080>>>>,
      <<<<"i","e","c","y",";">>,<<1077>>>>, <<<<"i","e","x","c","l">>,<<161>>>>,
      <<<<"i","e","x","c","l",";">>,<<161>>>>, <<<<"i","f","f",";">>,<<8660>>>>,
      <<<<"i","f","r",";">>,<<55349,56614>>>>, <<<<"i","g","r","a","v","e">>,<<236>>>>,
      <<<<"i","g","r","a","v","e",";">>,<<236>>>>, <<<<"i","i",";">>,<<8520>>>>,
      <<<<"i","i","i","i","n","t",";">>,<<10764>>>>, <<<<"i","i","i","n","t",";">>,<<8749>>>>,
      <<<<"i","i","n","f","i","n",";">>,<<10716>>>>, <<<<"i","i","o","t","a",";">>,<<8489>>>>,
      <<<<"i","j","l","i","g",";">>,<<307>>>>, <<<<"i","m","a","c","r",";">>,<<299>>>>,
      <<<<"i","m","a","g","e",";">>,<<8465>>>>, <<<<"i","m","a","g","l","i","n","e",";">>,<<8464>>>>,
      <<<<"i","m","a","g","p","a","r","t",";">>,<<8465>>>>, <<<<"i","m","a","t","h",";">>,<<305>>>>,
      <<<<"i","m","o","f",";">>,<<8887>>>>, <<<<"i","m","p","e","d",";">>,<<437>>>>, <<<<"i","n",";">>,<<8712>>>>,
      <<<<"i","n","c","a","r","e",";">>,<<8453>>>>, <<<<"i","n","f","i","n",";">>,<<8734>>>>,
      <<<<"i","n","f","i","n","t","i","e",";">>,<<10717>>>>, <<<<"i","n","o","d","o","t",";">>,<<305>>>>,
      <<<<"i","n","t",";">>,<<8747>>>>, <<<<"i","n","t","c","a","l",";">>,<<8890>>>>,
      <<<<"i","n","t","e","g","e","r","s",";">>,<<8484>>>>, <<<<"i","n","t","e","r","c","a","l",";">>,<<8890>>>>,
      <<<<"i","n","t","l","a","r","h","k",";">>,<<10775>>>>, <<<<"i","n","t","p","r","o","d",";">>,<<10812>>>>,
      <<<<"i","o","c","y",";">>,<<1105>>>>, <<<<"i","o","g","o","n",";">>,<<303>>>>,
      <<<<"i","o","p","f",";">>,<<55349,56666>>>>, <<<<"i","o","t","a",";">>,<<953>>>>,
      <<<<"i","p","r","o","d",";">>,<<10812>>>>, <<<<"i","q","u","e","s","t">>,<<191>>>>,
      <<<<"i","q","u","e","s","t",";">>,<<191>>>>, <<<<"i","s","c","r",";">>,<<55349,56510>>>>,
      <<<<"i","s","i","n",";">>,<<8712>>>>, <<<<"i","s","i","n","E",";">>,<<8953>>>>,
      <<<<"i","s","i","n","d","o","t",";">>,<<8949>>>>, <<<<"i","s","i","n","s",";">>,<<8948>>>>,
      <<<<"i","s","i","n","s","v",";">>,<<8947>>>>, <<<<"i","s","i","n","v",";">>,<<8712>>>>,
      <<<<"i","t",";">>,<<8290>>>>, <<<<"i","t","i","l","d","e",";">>,<<297>>>>,
      <<<<"i","u","k","c","y",";">>,<<1110>>>>, <<<<"i","u","m","l">>,<<239>>>>, <<<<"i","u","m","l",";">>,<<239>>>>,
      <<<<"j","c","i","r","c",";">>,<<309>>>>, <<<<"j","c","y",";">>,<<1081>>>>,
      <<<<"j","f","r",";">>,<<55349,56615>>>>, <<<<"j","m","a","t","h",";">>,<<567>>>>,
      <<<<"j","o","p","f",";">>,<<55349,56667>>>>, <<<<"j","s","c","r",";">>,<<55349,56511>>>>,
      <<<<"j","s","e","r","c","y",";">>,<<1112>>>>, <<<<"j","u","k","c","y",";">>,<<1108>>>>,
      <<<<"k","a","p","p","a",";">>,<<954>>>>, <<<<"k","a","p","p","a","v",";">>,<<1008>>>>,
      <<<<"k","c","e","d","i","l",";">>,<<311>>>>, <<<<"k","c","y",";">>,<<1082>>>>,
      <<<<"k","f","r",";">>,<<55349,56616>>>>, <<<<"k","g","r","e","e","n",";">>,<<312>>>>,
      <<<<"k","h","c","y",";">>,<<1093>>>>, <<<<"k","j","c","y",";">>,<<1116>>>>,
      <<<<"k","o","p","f",";">>,<<55349,56668>>>>, <<<<"k","s","c","r",";">>,<<55349,56512>>>>,
      <<<<"l","A","a","r","r",";">>,<<8666>>>>, <<<<"l","A","r","r",";">>,<<8656>>>>,
      <<<<"l","A","t","a","i","l",";">>,<<10523>>>>, <<<<"l","B","a","r","r",";">>,<<10510>>>>,
      <<<<"l","E",";">>,<<8806>>>>, <<<<"l","E","g",";">>,<<10891>>>>, <<<<"l","H","a","r",";">>,<<10594>>>>,
      <<<<"l","a","c","u","t","e",";">>,<<314>>>>, <<<<"l","a","e","m","p","t","y","v",";">>,<<10676>>>>,
      <<<<"l","a","g","r","a","n",";">>,<<8466>>>>, <<<<"l","a","m","b","d","a",";">>,<<955>>>>,
      <<<<"l","a","n","g",";">>,<<10216>>>>, <<<<"l","a","n","g","d",";">>,<<10641>>>>,
      <<<<"l","a","n","g","l","e",";">>,<<10216>>>>, <<<<"l","a","p",";">>,<<10885>>>>,
      <<<<"l","a","q","u","o">>,<<171>>>>, <<<<"l","a","q","u","o",";">>,<<171>>>>,
      <<<<"l","a","r","r",";">>,<<8592>>>>, <<<<"l","a","r","r","b",";">>,<<8676>>>>,
      <<<<"l","a","r","r","b","f","s",";">>,<<10527>>>>, <<<<"l","a","r","r","f","s",";">>,<<10525>>>>,
      <<<<"l","a","r","r","h","k",";">>,<<8617>>>>, <<<<"l","a","r","r","l","p",";">>,<<8619>>>>,
      <<<<"l","a","r","r","p","l",";">>,<<10553>>>>, <<<<"l","a","r","r","s","i","m",";">>,<<10611>>>>,
      <<<<"l","a","r","r","t","l",";">>,<<8610>>>>, <<<<"l","a","t",";">>,<<10923>>>>,
      <<<<"l","a","t","a","i","l",";">>,<<10521>>>>, <<<<"l","a","t","e",";">>,<<10925>>>>,
      <<<<"l","a","t","e","s",";">>,<<10925,65024>>>>, <<<<"l","b","a","r","r",";">>,<<10508>>>>,
      <<<<"l","b","b","r","k",";">>,<<10098>>>>, <<<<"l","b","r","a","c","e",";">>,<<123>>>>,
      <<<<"l","b","r","a","c","k",";">>,<<91>>>>, <<<<"l","b","r","k","e",";">>,<<10635>>>>,
      <<<<"l","b","r","k","s","l","d",";">>,<<10639>>>>, <<<<"l","b","r","k","s","l","u",";">>,<<10637>>>>,
      <<<<"l","c","a","r","o","n",";">>,<<318>>>>, <<<<"l","c","e","d","i","l",";">>,<<316>>>>,
      <<<<"l","c","e","i","l",";">>,<<8968>>>>, <<<<"l","c","u","b",";">>,<<123>>>>,
      <<<<"l","c","y",";">>,<<1083>>>>, <<<<"l","d","c","a",";">>,<<10550>>>>,
      <<<<"l","d","q","u","o",";">>,<<8220>>>>, <<<<"l","d","q","u","o","r",";">>,<<8222>>>>,
      <<<<"l","d","r","d","h","a","r",";">>,<<10599>>>>, <<<<"l","d","r","u","s","h","a","r",";">>,<<10571>>>>,
      <<<<"l","d","s","h",";">>,<<8626>>>>, <<<<"l","e",";">>,<<8804>>>>,
      <<<<"l","e","f","t","a","r","r","o","w",";">>,<<8592>>>>,
      <<<<"l","e","f","t","a","r","r","o","w","t","a","i","l",";">>,<<8610>>>>,
      <<<<"l","e","f","t","h","a","r","p","o","o","n","d","o","w","n",";">>,<<8637>>>>,
      <<<<"l","e","f","t","h","a","r","p","o","o","n","u","p",";">>,<<8636>>>>,
      <<<<"l","e","f","t","l","e","f","t","a","r","r","o","w","s",";">>,<<8647>>>>,
      <<<<"l","e","f","t","r","i","g","h","t","a","r","r","o","w",";">>,<<8596>>>>,
      <<<<"l","e","f","t","r","i","g","h","t","a","r","r","o","w","s",";">>,<<8646>>>>,
      <<<<"l","e","f","t","r","i","g","h","t","h","a","r","p","o","o","n","s",";">>,<<8651>>>>,
      <<<<"l","e","f","t","r","i","g","h","t","s","q","u","i","g","a","r","r","o","w",";">>,<<8621>>>>,
      <<<<"l","e","f","t","t","h","r","e","e","t","i","m","e","s",";">>,<<8907>>>>, <<<<"l","e","g",";">>,<<8922>>>>,
      <<<<"l","e","q",";">>,<<8804>>>>, <<<<"l","e","q","q",";">>,<<8806>>>>,
      <<<<"l","e","q","s","l","a","n","t",";">>,<<10877>>>>, <<<<"l","e","s",";">>,<<10877>>>>,
      <<<<"l","e","s","c","c",";">>,<<10920>>>>, <<<<"l","e","s","d","o","t",";">>,<<10879>>>>,
      <<<<"l","e","s","d","o","t","o",";">>,<<10881>>>>, <<<<"l","e","s","d","o","t","o","r",";">>,<<10883>>>>,
      <<<<"l","e","s","g",";">>,<<8922,65024>>>>, <<<<"l","e","s","g","e","s",";">>,<<10899>>>>,
      <<<<"l","e","s","s","a","p","p","r","o","x",";">>,<<10885>>>>,
      <<<<"l","e","s","s","d","o","t",";">>,<<8918>>>>, <<<<"l","e","s","s","e","q","g","t","r",";">>,<<8922>>>>,
      <<<<"l","e","s","s","e","q","q","g","t","r",";">>,<<10891>>>>,
      <<<<"l","e","s","s","g","t","r",";">>,<<8822>>>>, <<<<"l","e","s","s","s","i","m",";">>,<<8818>>>>,
      <<<<"l","f","i","s","h","t",";">>,<<10620>>>>, <<<<"l","f","l","o","o","r",";">>,<<8970>>>>,
      <<<<"l","f","r",";">>,<<55349,56617>>>>, <<<<"l","g",";">>,<<8822>>>>, <<<<"l","g","E",";">>,<<10897>>>>,
      <<<<"l","h","a","r","d",";">>,<<8637>>>>, <<<<"l","h","a","r","u",";">>,<<8636>>>>,
      <<<<"l","h","a","r","u","l",";">>,<<10602>>>>, <<<<"l","h","b","l","k",";">>,<<9604>>>>,
      <<<<"l","j","c","y",";">>,<<1113>>>>, <<<<"l","l",";">>,<<8810>>>>, <<<<"l","l","a","r","r",";">>,<<8647>>>>,
      <<<<"l","l","c","o","r","n","e","r",";">>,<<8990>>>>, <<<<"l","l","h","a","r","d",";">>,<<10603>>>>,
      <<<<"l","l","t","r","i",";">>,<<9722>>>>, <<<<"l","m","i","d","o","t",";">>,<<320>>>>,
      <<<<"l","m","o","u","s","t",";">>,<<9136>>>>, <<<<"l","m","o","u","s","t","a","c","h","e",";">>,<<9136>>>>,
      <<<<"l","n","E",";">>,<<8808>>>>, <<<<"l","n","a","p",";">>,<<10889>>>>,
      <<<<"l","n","a","p","p","r","o","x",";">>,<<10889>>>>, <<<<"l","n","e",";">>,<<10887>>>>,
      <<<<"l","n","e","q",";">>,<<10887>>>>, <<<<"l","n","e","q","q",";">>,<<8808>>>>,
      <<<<"l","n","s","i","m",";">>,<<8934>>>>, <<<<"l","o","a","n","g",";">>,<<10220>>>>,
      <<<<"l","o","a","r","r",";">>,<<8701>>>>, <<<<"l","o","b","r","k",";">>,<<10214>>>>,
      <<<<"l","o","n","g","l","e","f","t","a","r","r","o","w",";">>,<<10229>>>>,
      <<<<"l","o","n","g","l","e","f","t","r","i","g","h","t","a","r","r","o","w",";">>,<<10231>>>>,
      <<<<"l","o","n","g","m","a","p","s","t","o",";">>,<<10236>>>>,
      <<<<"l","o","n","g","r","i","g","h","t","a","r","r","o","w",";">>,<<10230>>>>,
      <<<<"l","o","o","p","a","r","r","o","w","l","e","f","t",";">>,<<8619>>>>,
      <<<<"l","o","o","p","a","r","r","o","w","r","i","g","h","t",";">>,<<8620>>>>,
      <<<<"l","o","p","a","r",";">>,<<10629>>>>, <<<<"l","o","p","f",";">>,<<55349,56669>>>>,
      <<<<"l","o","p","l","u","s",";">>,<<10797>>>>, <<<<"l","o","t","i","m","e","s",";">>,<<10804>>>>,
      <<<<"l","o","w","a","s","t",";">>,<<8727>>>>, <<<<"l","o","w","b","a","r",";">>,<<95>>>>,
      <<<<"l","o","z",";">>,<<9674>>>>, <<<<"l","o","z","e","n","g","e",";">>,<<9674>>>>,
      <<<<"l","o","z","f",";">>,<<10731>>>>, <<<<"l","p","a","r",";">>,<<40>>>>,
      <<<<"l","p","a","r","l","t",";">>,<<10643>>>>, <<<<"l","r","a","r","r",";">>,<<8646>>>>,
      <<<<"l","r","c","o","r","n","e","r",";">>,<<8991>>>>, <<<<"l","r","h","a","r",";">>,<<8651>>>>,
      <<<<"l","r","h","a","r","d",";">>,<<10605>>>>, <<<<"l","r","m",";">>,<<8206>>>>,
      <<<<"l","r","t","r","i",";">>,<<8895>>>>, <<<<"l","s","a","q","u","o",";">>,<<8249>>>>,
      <<<<"l","s","c","r",";">>,<<55349,56513>>>>, <<<<"l","s","h",";">>,<<8624>>>>,
      <<<<"l","s","i","m",";">>,<<8818>>>>, <<<<"l","s","i","m","e",";">>,<<10893>>>>,
      <<<<"l","s","i","m","g",";">>,<<10895>>>>, <<<<"l","s","q","b",";">>,<<91>>>>,
      <<<<"l","s","q","u","o",";">>,<<8216>>>>, <<<<"l","s","q","u","o","r",";">>,<<8218>>>>,
      <<<<"l","s","t","r","o","k",";">>,<<322>>>>, <<<<"l","t">>,<<60>>>>, <<<<"l","t",";">>,<<60>>>>,
      <<<<"l","t","c","c",";">>,<<10918>>>>, <<<<"l","t","c","i","r",";">>,<<10873>>>>,
      <<<<"l","t","d","o","t",";">>,<<8918>>>>, <<<<"l","t","h","r","e","e",";">>,<<8907>>>>,
      <<<<"l","t","i","m","e","s",";">>,<<8905>>>>, <<<<"l","t","l","a","r","r",";">>,<<10614>>>>,
      <<<<"l","t","q","u","e","s","t",";">>,<<10875>>>>, <<<<"l","t","r","P","a","r",";">>,<<10646>>>>,
      <<<<"l","t","r","i",";">>,<<9667>>>>, <<<<"l","t","r","i","e",";">>,<<8884>>>>,
      <<<<"l","t","r","i","f",";">>,<<9666>>>>, <<<<"l","u","r","d","s","h","a","r",";">>,<<10570>>>>,
      <<<<"l","u","r","u","h","a","r",";">>,<<10598>>>>,
      <<<<"l","v","e","r","t","n","e","q","q",";">>,<<8808,65024>>>>, <<<<"l","v","n","E",";">>,<<8808,65024>>>>,
      <<<<"m","D","D","o","t",";">>,<<8762>>>>, <<<<"m","a","c","r">>,<<175>>>>, <<<<"m","a","c","r",";">>,<<175>>>>,
      <<<<"m","a","l","e",";">>,<<9794>>>>, <<<<"m","a","l","t",";">>,<<10016>>>>,
      <<<<"m","a","l","t","e","s","e",";">>,<<10016>>>>, <<<<"m","a","p",";">>,<<8614>>>>,
      <<<<"m","a","p","s","t","o",";">>,<<8614>>>>, <<<<"m","a","p","s","t","o","d","o","w","n",";">>,<<8615>>>>,
      <<<<"m","a","p","s","t","o","l","e","f","t",";">>,<<8612>>>>,
      <<<<"m","a","p","s","t","o","u","p",";">>,<<8613>>>>, <<<<"m","a","r","k","e","r",";">>,<<9646>>>>,
      <<<<"m","c","o","m","m","a",";">>,<<10793>>>>, <<<<"m","c","y",";">>,<<1084>>>>,
      <<<<"m","d","a","s","h",";">>,<<8212>>>>,
      <<<<"m","e","a","s","u","r","e","d","a","n","g","l","e",";">>,<<8737>>>>,
      <<<<"m","f","r",";">>,<<55349,56618>>>>, <<<<"m","h","o",";">>,<<8487>>>>, <<<<"m","i","c","r","o">>,<<181>>>>,
      <<<<"m","i","c","r","o",";">>,<<181>>>>, <<<<"m","i","d",";">>,<<8739>>>>,
      <<<<"m","i","d","a","s","t",";">>,<<42>>>>, <<<<"m","i","d","c","i","r",";">>,<<10992>>>>,
      <<<<"m","i","d","d","o","t">>,<<183>>>>, <<<<"m","i","d","d","o","t",";">>,<<183>>>>,
      <<<<"m","i","n","u","s",";">>,<<8722>>>>, <<<<"m","i","n","u","s","b",";">>,<<8863>>>>,
      <<<<"m","i","n","u","s","d",";">>,<<8760>>>>, <<<<"m","i","n","u","s","d","u",";">>,<<10794>>>>,
      <<<<"m","l","c","p",";">>,<<10971>>>>, <<<<"m","l","d","r",";">>,<<8230>>>>,
      <<<<"m","n","p","l","u","s",";">>,<<8723>>>>, <<<<"m","o","d","e","l","s",";">>,<<8871>>>>,
      <<<<"m","o","p","f",";">>,<<55349,56670>>>>, <<<<"m","p",";">>,<<8723>>>>,
      <<<<"m","s","c","r",";">>,<<55349,56514>>>>, <<<<"m","s","t","p","o","s",";">>,<<8766>>>>,
      <<<<"m","u",";">>,<<956>>>>, <<<<"m","u","l","t","i","m","a","p",";">>,<<8888>>>>,
      <<<<"m","u","m","a","p",";">>,<<8888>>>>, <<<<"n","G","g",";">>,<<8921,824>>>>,
      <<<<"n","G","t",";">>,<<8811,8402>>>>, <<<<"n","G","t","v",";">>,<<8811,824>>>>,
      <<<<"n","L","e","f","t","a","r","r","o","w",";">>,<<8653>>>>,
      <<<<"n","L","e","f","t","r","i","g","h","t","a","r","r","o","w",";">>,<<8654>>>>,
      <<<<"n","L","l",";">>,<<8920,824>>>>, <<<<"n","L","t",";">>,<<8810,8402>>>>,
      <<<<"n","L","t","v",";">>,<<8810,824>>>>, <<<<"n","R","i","g","h","t","a","r","r","o","w",";">>,<<8655>>>>,
      <<<<"n","V","D","a","s","h",";">>,<<8879>>>>, <<<<"n","V","d","a","s","h",";">>,<<8878>>>>,
      <<<<"n","a","b","l","a",";">>,<<8711>>>>, <<<<"n","a","c","u","t","e",";">>,<<324>>>>,
      <<<<"n","a","n","g",";">>,<<8736,8402>>>>, <<<<"n","a","p",";">>,<<8777>>>>,
      <<<<"n","a","p","E",";">>,<<10864,824>>>>, <<<<"n","a","p","i","d",";">>,<<8779,824>>>>,
      <<<<"n","a","p","o","s",";">>,<<329>>>>, <<<<"n","a","p","p","r","o","x",";">>,<<8777>>>>,
      <<<<"n","a","t","u","r",";">>,<<9838>>>>, <<<<"n","a","t","u","r","a","l",";">>,<<9838>>>>,
      <<<<"n","a","t","u","r","a","l","s",";">>,<<8469>>>>, <<<<"n","b","s","p">>,<<160>>>>,
      <<<<"n","b","s","p",";">>,<<160>>>>, <<<<"n","b","u","m","p",";">>,<<8782,824>>>>,
      <<<<"n","b","u","m","p","e",";">>,<<8783,824>>>>, <<<<"n","c","a","p",";">>,<<10819>>>>,
      <<<<"n","c","a","r","o","n",";">>,<<328>>>>, <<<<"n","c","e","d","i","l",";">>,<<326>>>>,
      <<<<"n","c","o","n","g",";">>,<<8775>>>>, <<<<"n","c","o","n","g","d","o","t",";">>,<<10861,824>>>>,
      <<<<"n","c","u","p",";">>,<<10818>>>>, <<<<"n","c","y",";">>,<<1085>>>>,
      <<<<"n","d","a","s","h",";">>,<<8211>>>>, <<<<"n","e",";">>,<<8800>>>>,
      <<<<"n","e","A","r","r",";">>,<<8663>>>>, <<<<"n","e","a","r","h","k",";">>,<<10532>>>>,
      <<<<"n","e","a","r","r",";">>,<<8599>>>>, <<<<"n","e","a","r","r","o","w",";">>,<<8599>>>>,
      <<<<"n","e","d","o","t",";">>,<<8784,824>>>>, <<<<"n","e","q","u","i","v",";">>,<<8802>>>>,
      <<<<"n","e","s","e","a","r",";">>,<<10536>>>>, <<<<"n","e","s","i","m",";">>,<<8770,824>>>>,
      <<<<"n","e","x","i","s","t",";">>,<<8708>>>>, <<<<"n","e","x","i","s","t","s",";">>,<<8708>>>>,
      <<<<"n","f","r",";">>,<<55349,56619>>>>, <<<<"n","g","E",";">>,<<8807,824>>>>,
      <<<<"n","g","e",";">>,<<8817>>>>, <<<<"n","g","e","q",";">>,<<8817>>>>,
      <<<<"n","g","e","q","q",";">>,<<8807,824>>>>, <<<<"n","g","e","q","s","l","a","n","t",";">>,<<10878,824>>>>,
      <<<<"n","g","e","s",";">>,<<10878,824>>>>, <<<<"n","g","s","i","m",";">>,<<8821>>>>,
      <<<<"n","g","t",";">>,<<8815>>>>, <<<<"n","g","t","r",";">>,<<8815>>>>,
      <<<<"n","h","A","r","r",";">>,<<8654>>>>, <<<<"n","h","a","r","r",";">>,<<8622>>>>,
      <<<<"n","h","p","a","r",";">>,<<10994>>>>, <<<<"n","i",";">>,<<8715>>>>, <<<<"n","i","s",";">>,<<8956>>>>,
      <<<<"n","i","s","d",";">>,<<8954>>>>, <<<<"n","i","v",";">>,<<8715>>>>, <<<<"n","j","c","y",";">>,<<1114>>>>,
      <<<<"n","l","A","r","r",";">>,<<8653>>>>, <<<<"n","l","E",";">>,<<8806,824>>>>,
      <<<<"n","l","a","r","r",";">>,<<8602>>>>, <<<<"n","l","d","r",";">>,<<8229>>>>,
      <<<<"n","l","e",";">>,<<8816>>>>, <<<<"n","l","e","f","t","a","r","r","o","w",";">>,<<8602>>>>,
      <<<<"n","l","e","f","t","r","i","g","h","t","a","r","r","o","w",";">>,<<8622>>>>,
      <<<<"n","l","e","q",";">>,<<8816>>>>, <<<<"n","l","e","q","q",";">>,<<8806,824>>>>,
      <<<<"n","l","e","q","s","l","a","n","t",";">>,<<10877,824>>>>, <<<<"n","l","e","s",";">>,<<10877,824>>>>,
      <<<<"n","l","e","s","s",";">>,<<8814>>>>, <<<<"n","l","s","i","m",";">>,<<8820>>>>,
      <<<<"n","l","t",";">>,<<8814>>>>, <<<<"n","l","t","r","i",";">>,<<8938>>>>,
      <<<<"n","l","t","r","i","e",";">>,<<8940>>>>, <<<<"n","m","i","d",";">>,<<8740>>>>,
      <<<<"n","o","p","f",";">>,<<55349,56671>>>>, <<<<"n","o","t">>,<<172>>>>, <<<<"n","o","t",";">>,<<172>>>>,
      <<<<"n","o","t","i","n",";">>,<<8713>>>>, <<<<"n","o","t","i","n","E",";">>,<<8953,824>>>>,
      <<<<"n","o","t","i","n","d","o","t",";">>,<<8949,824>>>>, <<<<"n","o","t","i","n","v","a",";">>,<<8713>>>>,
      <<<<"n","o","t","i","n","v","b",";">>,<<8951>>>>, <<<<"n","o","t","i","n","v","c",";">>,<<8950>>>>,
      <<<<"n","o","t","n","i",";">>,<<8716>>>>, <<<<"n","o","t","n","i","v","a",";">>,<<8716>>>>,
      <<<<"n","o","t","n","i","v","b",";">>,<<8958>>>>, <<<<"n","o","t","n","i","v","c",";">>,<<8957>>>>,
      <<<<"n","p","a","r",";">>,<<8742>>>>, <<<<"n","p","a","r","a","l","l","e","l",";">>,<<8742>>>>,
      <<<<"n","p","a","r","s","l",";">>,<<11005,8421>>>>, <<<<"n","p","a","r","t",";">>,<<8706,824>>>>,
      <<<<"n","p","o","l","i","n","t",";">>,<<10772>>>>, <<<<"n","p","r",";">>,<<8832>>>>,
      <<<<"n","p","r","c","u","e",";">>,<<8928>>>>, <<<<"n","p","r","e",";">>,<<10927,824>>>>,
      <<<<"n","p","r","e","c",";">>,<<8832>>>>, <<<<"n","p","r","e","c","e","q",";">>,<<10927,824>>>>,
      <<<<"n","r","A","r","r",";">>,<<8655>>>>, <<<<"n","r","a","r","r",";">>,<<8603>>>>,
      <<<<"n","r","a","r","r","c",";">>,<<10547,824>>>>, <<<<"n","r","a","r","r","w",";">>,<<8605,824>>>>,
      <<<<"n","r","i","g","h","t","a","r","r","o","w",";">>,<<8603>>>>, <<<<"n","r","t","r","i",";">>,<<8939>>>>,
      <<<<"n","r","t","r","i","e",";">>,<<8941>>>>, <<<<"n","s","c",";">>,<<8833>>>>,
      <<<<"n","s","c","c","u","e",";">>,<<8929>>>>, <<<<"n","s","c","e",";">>,<<10928,824>>>>,
      <<<<"n","s","c","r",";">>,<<55349,56515>>>>, <<<<"n","s","h","o","r","t","m","i","d",";">>,<<8740>>>>,
      <<<<"n","s","h","o","r","t","p","a","r","a","l","l","e","l",";">>,<<8742>>>>,
      <<<<"n","s","i","m",";">>,<<8769>>>>, <<<<"n","s","i","m","e",";">>,<<8772>>>>,
      <<<<"n","s","i","m","e","q",";">>,<<8772>>>>, <<<<"n","s","m","i","d",";">>,<<8740>>>>,
      <<<<"n","s","p","a","r",";">>,<<8742>>>>, <<<<"n","s","q","s","u","b","e",";">>,<<8930>>>>,
      <<<<"n","s","q","s","u","p","e",";">>,<<8931>>>>, <<<<"n","s","u","b",";">>,<<8836>>>>,
      <<<<"n","s","u","b","E",";">>,<<10949,824>>>>, <<<<"n","s","u","b","e",";">>,<<8840>>>>,
      <<<<"n","s","u","b","s","e","t",";">>,<<8834,8402>>>>,
      <<<<"n","s","u","b","s","e","t","e","q",";">>,<<8840>>>>,
      <<<<"n","s","u","b","s","e","t","e","q","q",";">>,<<10949,824>>>>, <<<<"n","s","u","c","c",";">>,<<8833>>>>,
      <<<<"n","s","u","c","c","e","q",";">>,<<10928,824>>>>, <<<<"n","s","u","p",";">>,<<8837>>>>,
      <<<<"n","s","u","p","E",";">>,<<10950,824>>>>, <<<<"n","s","u","p","e",";">>,<<8841>>>>,
      <<<<"n","s","u","p","s","e","t",";">>,<<8835,8402>>>>,
      <<<<"n","s","u","p","s","e","t","e","q",";">>,<<8841>>>>,
      <<<<"n","s","u","p","s","e","t","e","q","q",";">>,<<10950,824>>>>, <<<<"n","t","g","l",";">>,<<8825>>>>,
      <<<<"n","t","i","l","d","e">>,<<241>>>>, <<<<"n","t","i","l","d","e",";">>,<<241>>>>,
      <<<<"n","t","l","g",";">>,<<8824>>>>, <<<<"n","t","r","i","a","n","g","l","e","l","e","f","t",";">>,<<8938>>>>,
      <<<<"n","t","r","i","a","n","g","l","e","l","e","f","t","e","q",";">>,<<8940>>>>,
      <<<<"n","t","r","i","a","n","g","l","e","r","i","g","h","t",";">>,<<8939>>>>,
      <<<<"n","t","r","i","a","n","g","l","e","r","i","g","h","t","e","q",";">>,<<8941>>>>,
      <<<<"n","u",";">>,<<957>>>>, <<<<"n","u","m",";">>,<<35>>>>, <<<<"n","u","m","e","r","o",";">>,<<8470>>>>,
      <<<<"n","u","m","s","p",";">>,<<8199>>>>, <<<<"n","v","D","a","s","h",";">>,<<8877>>>>,
      <<<<"n","v","H","a","r","r",";">>,<<10500>>>>, <<<<"n","v","a","p",";">>,<<8781,8402>>>>,
      <<<<"n","v","d","a","s","h",";">>,<<8876>>>>, <<<<"n","v","g","e",";">>,<<8805,8402>>>>,
      <<<<"n","v","g","t",";">>,<<62,8402>>>>, <<<<"n","v","i","n","f","i","n",";">>,<<10718>>>>,
      <<<<"n","v","l","A","r","r",";">>,<<10498>>>>, <<<<"n","v","l","e",";">>,<<8804,8402>>>>,
      <<<<"n","v","l","t",";">>,<<60,8402>>>>, <<<<"n","v","l","t","r","i","e",";">>,<<8884,8402>>>>,
      <<<<"n","v","r","A","r","r",";">>,<<10499>>>>, <<<<"n","v","r","t","r","i","e",";">>,<<8885,8402>>>>,
      <<<<"n","v","s","i","m",";">>,<<8764,8402>>>>, <<<<"n","w","A","r","r",";">>,<<8662>>>>,
      <<<<"n","w","a","r","h","k",";">>,<<10531>>>>, <<<<"n","w","a","r","r",";">>,<<8598>>>>,
      <<<<"n","w","a","r","r","o","w",";">>,<<8598>>>>, <<<<"n","w","n","e","a","r",";">>,<<10535>>>>,
      <<<<"o","S",";">>,<<9416>>>>, <<<<"o","a","c","u","t","e">>,<<243>>>>,
      <<<<"o","a","c","u","t","e",";">>,<<243>>>>, <<<<"o","a","s","t",";">>,<<8859>>>>,
      <<<<"o","c","i","r",";">>,<<8858>>>>, <<<<"o","c","i","r","c">>,<<244>>>>,
      <<<<"o","c","i","r","c",";">>,<<244>>>>, <<<<"o","c","y",";">>,<<1086>>>>,
      <<<<"o","d","a","s","h",";">>,<<8861>>>>, <<<<"o","d","b","l","a","c",";">>,<<337>>>>,
      <<<<"o","d","i","v",";">>,<<10808>>>>, <<<<"o","d","o","t",";">>,<<8857>>>>,
      <<<<"o","d","s","o","l","d",";">>,<<10684>>>>, <<<<"o","e","l","i","g",";">>,<<339>>>>,
      <<<<"o","f","c","i","r",";">>,<<10687>>>>, <<<<"o","f","r",";">>,<<55349,56620>>>>,
      <<<<"o","g","o","n",";">>,<<731>>>>, <<<<"o","g","r","a","v","e">>,<<242>>>>,
      <<<<"o","g","r","a","v","e",";">>,<<242>>>>, <<<<"o","g","t",";">>,<<10689>>>>,
      <<<<"o","h","b","a","r",";">>,<<10677>>>>, <<<<"o","h","m",";">>,<<937>>>>,
      <<<<"o","i","n","t",";">>,<<8750>>>>, <<<<"o","l","a","r","r",";">>,<<8634>>>>,
      <<<<"o","l","c","i","r",";">>,<<10686>>>>, <<<<"o","l","c","r","o","s","s",";">>,<<10683>>>>,
      <<<<"o","l","i","n","e",";">>,<<8254>>>>, <<<<"o","l","t",";">>,<<10688>>>>,
      <<<<"o","m","a","c","r",";">>,<<333>>>>, <<<<"o","m","e","g","a",";">>,<<969>>>>,
      <<<<"o","m","i","c","r","o","n",";">>,<<959>>>>, <<<<"o","m","i","d",";">>,<<10678>>>>,
      <<<<"o","m","i","n","u","s",";">>,<<8854>>>>, <<<<"o","o","p","f",";">>,<<55349,56672>>>>,
      <<<<"o","p","a","r",";">>,<<10679>>>>, <<<<"o","p","e","r","p",";">>,<<10681>>>>,
      <<<<"o","p","l","u","s",";">>,<<8853>>>>, <<<<"o","r",";">>,<<8744>>>>,
      <<<<"o","r","a","r","r",";">>,<<8635>>>>, <<<<"o","r","d",";">>,<<10845>>>>,
      <<<<"o","r","d","e","r",";">>,<<8500>>>>, <<<<"o","r","d","e","r","o","f",";">>,<<8500>>>>,
      <<<<"o","r","d","f">>,<<170>>>>, <<<<"o","r","d","f",";">>,<<170>>>>, <<<<"o","r","d","m">>,<<186>>>>,
      <<<<"o","r","d","m",";">>,<<186>>>>, <<<<"o","r","i","g","o","f",";">>,<<8886>>>>,
      <<<<"o","r","o","r",";">>,<<10838>>>>, <<<<"o","r","s","l","o","p","e",";">>,<<10839>>>>,
      <<<<"o","r","v",";">>,<<10843>>>>, <<<<"o","s","c","r",";">>,<<8500>>>>,
      <<<<"o","s","l","a","s","h">>,<<248>>>>, <<<<"o","s","l","a","s","h",";">>,<<248>>>>,
      <<<<"o","s","o","l",";">>,<<8856>>>>, <<<<"o","t","i","l","d","e">>,<<245>>>>,
      <<<<"o","t","i","l","d","e",";">>,<<245>>>>, <<<<"o","t","i","m","e","s",";">>,<<8855>>>>,
      <<<<"o","t","i","m","e","s","a","s",";">>,<<10806>>>>, <<<<"o","u","m","l">>,<<246>>>>,
      <<<<"o","u","m","l",";">>,<<246>>>>, <<<<"o","v","b","a","r",";">>,<<9021>>>>,
      <<<<"p","a","r",";">>,<<8741>>>>, <<<<"p","a","r","a">>,<<182>>>>, <<<<"p","a","r","a",";">>,<<182>>>>,
      <<<<"p","a","r","a","l","l","e","l",";">>,<<8741>>>>, <<<<"p","a","r","s","i","m",";">>,<<10995>>>>,
      <<<<"p","a","r","s","l",";">>,<<11005>>>>, <<<<"p","a","r","t",";">>,<<8706>>>>,
      <<<<"p","c","y",";">>,<<1087>>>>, <<<<"p","e","r","c","n","t",";">>,<<37>>>>,
      <<<<"p","e","r","i","o","d",";">>,<<46>>>>, <<<<"p","e","r","m","i","l",";">>,<<8240>>>>,
      <<<<"p","e","r","p",";">>,<<8869>>>>, <<<<"p","e","r","t","e","n","k",";">>,<<8241>>>>,
      <<<<"p","f","r",";">>,<<55349,56621>>>>, <<<<"p","h","i",";">>,<<966>>>>, <<<<"p","h","i","v",";">>,<<981>>>>,
      <<<<"p","h","m","m","a","t",";">>,<<8499>>>>, <<<<"p","h","o","n","e",";">>,<<9742>>>>,
      <<<<"p","i",";">>,<<960>>>>, <<<<"p","i","t","c","h","f","o","r","k",";">>,<<8916>>>>,
      <<<<"p","i","v",";">>,<<982>>>>, <<<<"p","l","a","n","c","k",";">>,<<8463>>>>,
      <<<<"p","l","a","n","c","k","h",";">>,<<8462>>>>, <<<<"p","l","a","n","k","v",";">>,<<8463>>>>,
      <<<<"p","l","u","s",";">>,<<43>>>>, <<<<"p","l","u","s","a","c","i","r",";">>,<<10787>>>>,
      <<<<"p","l","u","s","b",";">>,<<8862>>>>, <<<<"p","l","u","s","c","i","r",";">>,<<10786>>>>,
      <<<<"p","l","u","s","d","o",";">>,<<8724>>>>, <<<<"p","l","u","s","d","u",";">>,<<10789>>>>,
      <<<<"p","l","u","s","e",";">>,<<10866>>>>, <<<<"p","l","u","s","m","n">>,<<177>>>>,
      <<<<"p","l","u","s","m","n",";">>,<<177>>>>, <<<<"p","l","u","s","s","i","m",";">>,<<10790>>>>,
      <<<<"p","l","u","s","t","w","o",";">>,<<10791>>>>, <<<<"p","m",";">>,<<177>>>>,
      <<<<"p","o","i","n","t","i","n","t",";">>,<<10773>>>>, <<<<"p","o","p","f",";">>,<<55349,56673>>>>,
      <<<<"p","o","u","n","d">>,<<163>>>>, <<<<"p","o","u","n","d",";">>,<<163>>>>, <<<<"p","r",";">>,<<8826>>>>,
      <<<<"p","r","E",";">>,<<10931>>>>, <<<<"p","r","a","p",";">>,<<10935>>>>,
      <<<<"p","r","c","u","e",";">>,<<8828>>>>, <<<<"p","r","e",";">>,<<10927>>>>,
      <<<<"p","r","e","c",";">>,<<8826>>>>, <<<<"p","r","e","c","a","p","p","r","o","x",";">>,<<10935>>>>,
      <<<<"p","r","e","c","c","u","r","l","y","e","q",";">>,<<8828>>>>,
      <<<<"p","r","e","c","e","q",";">>,<<10927>>>>,
      <<<<"p","r","e","c","n","a","p","p","r","o","x",";">>,<<10937>>>>,
      <<<<"p","r","e","c","n","e","q","q",";">>,<<10933>>>>, <<<<"p","r","e","c","n","s","i","m",";">>,<<8936>>>>,
      <<<<"p","r","e","c","s","i","m",";">>,<<8830>>>>, <<<<"p","r","i","m","e",";">>,<<8242>>>>,
      <<<<"p","r","i","m","e","s",";">>,<<8473>>>>, <<<<"p","r","n","E",";">>,<<10933>>>>,
      <<<<"p","r","n","a","p",";">>,<<10937>>>>, <<<<"p","r","n","s","i","m",";">>,<<8936>>>>,
      <<<<"p","r","o","d",";">>,<<8719>>>>, <<<<"p","r","o","f","a","l","a","r",";">>,<<9006>>>>,
      <<<<"p","r","o","f","l","i","n","e",";">>,<<8978>>>>, <<<<"p","r","o","f","s","u","r","f",";">>,<<8979>>>>,
      <<<<"p","r","o","p",";">>,<<8733>>>>, <<<<"p","r","o","p","t","o",";">>,<<8733>>>>,
      <<<<"p","r","s","i","m",";">>,<<8830>>>>, <<<<"p","r","u","r","e","l",";">>,<<8880>>>>,
      <<<<"p","s","c","r",";">>,<<55349,56517>>>>, <<<<"p","s","i",";">>,<<968>>>>,
      <<<<"p","u","n","c","s","p",";">>,<<8200>>>>, <<<<"q","f","r",";">>,<<55349,56622>>>>,
      <<<<"q","i","n","t",";">>,<<10764>>>>, <<<<"q","o","p","f",";">>,<<55349,56674>>>>,
      <<<<"q","p","r","i","m","e",";">>,<<8279>>>>, <<<<"q","s","c","r",";">>,<<55349,56518>>>>,
      <<<<"q","u","a","t","e","r","n","i","o","n","s",";">>,<<8461>>>>,
      <<<<"q","u","a","t","i","n","t",";">>,<<10774>>>>, <<<<"q","u","e","s","t",";">>,<<63>>>>,
      <<<<"q","u","e","s","t","e","q",";">>,<<8799>>>>, <<<<"q","u","o","t">>,<<34>>>>,
      <<<<"q","u","o","t",";">>,<<34>>>>, <<<<"r","A","a","r","r",";">>,<<8667>>>>,
      <<<<"r","A","r","r",";">>,<<8658>>>>, <<<<"r","A","t","a","i","l",";">>,<<10524>>>>,
      <<<<"r","B","a","r","r",";">>,<<10511>>>>, <<<<"r","H","a","r",";">>,<<10596>>>>,
      <<<<"r","a","c","e",";">>,<<8765,817>>>>, <<<<"r","a","c","u","t","e",";">>,<<341>>>>,
      <<<<"r","a","d","i","c",";">>,<<8730>>>>, <<<<"r","a","e","m","p","t","y","v",";">>,<<10675>>>>,
      <<<<"r","a","n","g",";">>,<<10217>>>>, <<<<"r","a","n","g","d",";">>,<<10642>>>>,
      <<<<"r","a","n","g","e",";">>,<<10661>>>>, <<<<"r","a","n","g","l","e",";">>,<<10217>>>>,
      <<<<"r","a","q","u","o">>,<<187>>>>, <<<<"r","a","q","u","o",";">>,<<187>>>>,
      <<<<"r","a","r","r",";">>,<<8594>>>>, <<<<"r","a","r","r","a","p",";">>,<<10613>>>>,
      <<<<"r","a","r","r","b",";">>,<<8677>>>>, <<<<"r","a","r","r","b","f","s",";">>,<<10528>>>>,
      <<<<"r","a","r","r","c",";">>,<<10547>>>>, <<<<"r","a","r","r","f","s",";">>,<<10526>>>>,
      <<<<"r","a","r","r","h","k",";">>,<<8618>>>>, <<<<"r","a","r","r","l","p",";">>,<<8620>>>>,
      <<<<"r","a","r","r","p","l",";">>,<<10565>>>>, <<<<"r","a","r","r","s","i","m",";">>,<<10612>>>>,
      <<<<"r","a","r","r","t","l",";">>,<<8611>>>>, <<<<"r","a","r","r","w",";">>,<<8605>>>>,
      <<<<"r","a","t","a","i","l",";">>,<<10522>>>>, <<<<"r","a","t","i","o",";">>,<<8758>>>>,
      <<<<"r","a","t","i","o","n","a","l","s",";">>,<<8474>>>>, <<<<"r","b","a","r","r",";">>,<<10509>>>>,
      <<<<"r","b","b","r","k",";">>,<<10099>>>>, <<<<"r","b","r","a","c","e",";">>,<<125>>>>,
      <<<<"r","b","r","a","c","k",";">>,<<93>>>>, <<<<"r","b","r","k","e",";">>,<<10636>>>>,
      <<<<"r","b","r","k","s","l","d",";">>,<<10638>>>>, <<<<"r","b","r","k","s","l","u",";">>,<<10640>>>>,
      <<<<"r","c","a","r","o","n",";">>,<<345>>>>, <<<<"r","c","e","d","i","l",";">>,<<343>>>>,
      <<<<"r","c","e","i","l",";">>,<<8969>>>>, <<<<"r","c","u","b",";">>,<<125>>>>,
      <<<<"r","c","y",";">>,<<1088>>>>, <<<<"r","d","c","a",";">>,<<10551>>>>,
      <<<<"r","d","l","d","h","a","r",";">>,<<10601>>>>, <<<<"r","d","q","u","o",";">>,<<8221>>>>,
      <<<<"r","d","q","u","o","r",";">>,<<8221>>>>, <<<<"r","d","s","h",";">>,<<8627>>>>,
      <<<<"r","e","a","l",";">>,<<8476>>>>, <<<<"r","e","a","l","i","n","e",";">>,<<8475>>>>,
      <<<<"r","e","a","l","p","a","r","t",";">>,<<8476>>>>, <<<<"r","e","a","l","s",";">>,<<8477>>>>,
      <<<<"r","e","c","t",";">>,<<9645>>>>, <<<<"r","e","g">>,<<174>>>>, <<<<"r","e","g",";">>,<<174>>>>,
      <<<<"r","f","i","s","h","t",";">>,<<10621>>>>, <<<<"r","f","l","o","o","r",";">>,<<8971>>>>,
      <<<<"r","f","r",";">>,<<55349,56623>>>>, <<<<"r","h","a","r","d",";">>,<<8641>>>>,
      <<<<"r","h","a","r","u",";">>,<<8640>>>>, <<<<"r","h","a","r","u","l",";">>,<<10604>>>>,
      <<<<"r","h","o",";">>,<<961>>>>, <<<<"r","h","o","v",";">>,<<1009>>>>,
      <<<<"r","i","g","h","t","a","r","r","o","w",";">>,<<8594>>>>,
      <<<<"r","i","g","h","t","a","r","r","o","w","t","a","i","l",";">>,<<8611>>>>,
      <<<<"r","i","g","h","t","h","a","r","p","o","o","n","d","o","w","n",";">>,<<8641>>>>,
      <<<<"r","i","g","h","t","h","a","r","p","o","o","n","u","p",";">>,<<8640>>>>,
      <<<<"r","i","g","h","t","l","e","f","t","a","r","r","o","w","s",";">>,<<8644>>>>,
      <<<<"r","i","g","h","t","l","e","f","t","h","a","r","p","o","o","n","s",";">>,<<8652>>>>,
      <<<<"r","i","g","h","t","r","i","g","h","t","a","r","r","o","w","s",";">>,<<8649>>>>,
      <<<<"r","i","g","h","t","s","q","u","i","g","a","r","r","o","w",";">>,<<8605>>>>,
      <<<<"r","i","g","h","t","t","h","r","e","e","t","i","m","e","s",";">>,<<8908>>>>,
      <<<<"r","i","n","g",";">>,<<730>>>>, <<<<"r","i","s","i","n","g","d","o","t","s","e","q",";">>,<<8787>>>>,
      <<<<"r","l","a","r","r",";">>,<<8644>>>>, <<<<"r","l","h","a","r",";">>,<<8652>>>>,
      <<<<"r","l","m",";">>,<<8207>>>>, <<<<"r","m","o","u","s","t",";">>,<<9137>>>>,
      <<<<"r","m","o","u","s","t","a","c","h","e",";">>,<<9137>>>>, <<<<"r","n","m","i","d",";">>,<<10990>>>>,
      <<<<"r","o","a","n","g",";">>,<<10221>>>>, <<<<"r","o","a","r","r",";">>,<<8702>>>>,
      <<<<"r","o","b","r","k",";">>,<<10215>>>>, <<<<"r","o","p","a","r",";">>,<<10630>>>>,
      <<<<"r","o","p","f",";">>,<<55349,56675>>>>, <<<<"r","o","p","l","u","s",";">>,<<10798>>>>,
      <<<<"r","o","t","i","m","e","s",";">>,<<10805>>>>, <<<<"r","p","a","r",";">>,<<41>>>>,
      <<<<"r","p","a","r","g","t",";">>,<<10644>>>>, <<<<"r","p","p","o","l","i","n","t",";">>,<<10770>>>>,
      <<<<"r","r","a","r","r",";">>,<<8649>>>>, <<<<"r","s","a","q","u","o",";">>,<<8250>>>>,
      <<<<"r","s","c","r",";">>,<<55349,56519>>>>, <<<<"r","s","h",";">>,<<8625>>>>,
      <<<<"r","s","q","b",";">>,<<93>>>>, <<<<"r","s","q","u","o",";">>,<<8217>>>>,
      <<<<"r","s","q","u","o","r",";">>,<<8217>>>>, <<<<"r","t","h","r","e","e",";">>,<<8908>>>>,
      <<<<"r","t","i","m","e","s",";">>,<<8906>>>>, <<<<"r","t","r","i",";">>,<<9657>>>>,
      <<<<"r","t","r","i","e",";">>,<<8885>>>>, <<<<"r","t","r","i","f",";">>,<<9656>>>>,
      <<<<"r","t","r","i","l","t","r","i",";">>,<<10702>>>>, <<<<"r","u","l","u","h","a","r",";">>,<<10600>>>>,
      <<<<"r","x",";">>,<<8478>>>>, <<<<"s","a","c","u","t","e",";">>,<<347>>>>,
      <<<<"s","b","q","u","o",";">>,<<8218>>>>, <<<<"s","c",";">>,<<8827>>>>, <<<<"s","c","E",";">>,<<10932>>>>,
      <<<<"s","c","a","p",";">>,<<10936>>>>, <<<<"s","c","a","r","o","n",";">>,<<353>>>>,
      <<<<"s","c","c","u","e",";">>,<<8829>>>>, <<<<"s","c","e",";">>,<<10928>>>>,
      <<<<"s","c","e","d","i","l",";">>,<<351>>>>, <<<<"s","c","i","r","c",";">>,<<349>>>>,
      <<<<"s","c","n","E",";">>,<<10934>>>>, <<<<"s","c","n","a","p",";">>,<<10938>>>>,
      <<<<"s","c","n","s","i","m",";">>,<<8937>>>>, <<<<"s","c","p","o","l","i","n","t",";">>,<<10771>>>>,
      <<<<"s","c","s","i","m",";">>,<<8831>>>>, <<<<"s","c","y",";">>,<<1089>>>>,
      <<<<"s","d","o","t",";">>,<<8901>>>>, <<<<"s","d","o","t","b",";">>,<<8865>>>>,
      <<<<"s","d","o","t","e",";">>,<<10854>>>>, <<<<"s","e","A","r","r",";">>,<<8664>>>>,
      <<<<"s","e","a","r","h","k",";">>,<<10533>>>>, <<<<"s","e","a","r","r",";">>,<<8600>>>>,
      <<<<"s","e","a","r","r","o","w",";">>,<<8600>>>>, <<<<"s","e","c","t">>,<<167>>>>,
      <<<<"s","e","c","t",";">>,<<167>>>>, <<<<"s","e","m","i",";">>,<<59>>>>,
      <<<<"s","e","s","w","a","r",";">>,<<10537>>>>, <<<<"s","e","t","m","i","n","u","s",";">>,<<8726>>>>,
      <<<<"s","e","t","m","n",";">>,<<8726>>>>, <<<<"s","e","x","t",";">>,<<10038>>>>,
      <<<<"s","f","r",";">>,<<55349,56624>>>>, <<<<"s","f","r","o","w","n",";">>,<<8994>>>>,
      <<<<"s","h","a","r","p",";">>,<<9839>>>>, <<<<"s","h","c","h","c","y",";">>,<<1097>>>>,
      <<<<"s","h","c","y",";">>,<<1096>>>>, <<<<"s","h","o","r","t","m","i","d",";">>,<<8739>>>>,
      <<<<"s","h","o","r","t","p","a","r","a","l","l","e","l",";">>,<<8741>>>>, <<<<"s","h","y">>,<<173>>>>,
      <<<<"s","h","y",";">>,<<173>>>>, <<<<"s","i","g","m","a",";">>,<<963>>>>,
      <<<<"s","i","g","m","a","f",";">>,<<962>>>>, <<<<"s","i","g","m","a","v",";">>,<<962>>>>,
      <<<<"s","i","m",";">>,<<8764>>>>, <<<<"s","i","m","d","o","t",";">>,<<10858>>>>,
      <<<<"s","i","m","e",";">>,<<8771>>>>, <<<<"s","i","m","e","q",";">>,<<8771>>>>,
      <<<<"s","i","m","g",";">>,<<10910>>>>, <<<<"s","i","m","g","E",";">>,<<10912>>>>,
      <<<<"s","i","m","l",";">>,<<10909>>>>, <<<<"s","i","m","l","E",";">>,<<10911>>>>,
      <<<<"s","i","m","n","e",";">>,<<8774>>>>, <<<<"s","i","m","p","l","u","s",";">>,<<10788>>>>,
      <<<<"s","i","m","r","a","r","r",";">>,<<10610>>>>, <<<<"s","l","a","r","r",";">>,<<8592>>>>,
      <<<<"s","m","a","l","l","s","e","t","m","i","n","u","s",";">>,<<8726>>>>,
      <<<<"s","m","a","s","h","p",";">>,<<10803>>>>, <<<<"s","m","e","p","a","r","s","l",";">>,<<10724>>>>,
      <<<<"s","m","i","d",";">>,<<8739>>>>, <<<<"s","m","i","l","e",";">>,<<8995>>>>,
      <<<<"s","m","t",";">>,<<10922>>>>, <<<<"s","m","t","e",";">>,<<10924>>>>,
      <<<<"s","m","t","e","s",";">>,<<10924,65024>>>>, <<<<"s","o","f","t","c","y",";">>,<<1100>>>>,
      <<<<"s","o","l",";">>,<<47>>>>, <<<<"s","o","l","b",";">>,<<10692>>>>,
      <<<<"s","o","l","b","a","r",";">>,<<9023>>>>, <<<<"s","o","p","f",";">>,<<55349,56676>>>>,
      <<<<"s","p","a","d","e","s",";">>,<<9824>>>>, <<<<"s","p","a","d","e","s","u","i","t",";">>,<<9824>>>>,
      <<<<"s","p","a","r",";">>,<<8741>>>>, <<<<"s","q","c","a","p",";">>,<<8851>>>>,
      <<<<"s","q","c","a","p","s",";">>,<<8851,65024>>>>, <<<<"s","q","c","u","p",";">>,<<8852>>>>,
      <<<<"s","q","c","u","p","s",";">>,<<8852,65024>>>>, <<<<"s","q","s","u","b",";">>,<<8847>>>>,
      <<<<"s","q","s","u","b","e",";">>,<<8849>>>>, <<<<"s","q","s","u","b","s","e","t",";">>,<<8847>>>>,
      <<<<"s","q","s","u","b","s","e","t","e","q",";">>,<<8849>>>>, <<<<"s","q","s","u","p",";">>,<<8848>>>>,
      <<<<"s","q","s","u","p","e",";">>,<<8850>>>>, <<<<"s","q","s","u","p","s","e","t",";">>,<<8848>>>>,
      <<<<"s","q","s","u","p","s","e","t","e","q",";">>,<<8850>>>>, <<<<"s","q","u",";">>,<<9633>>>>,
      <<<<"s","q","u","a","r","e",";">>,<<9633>>>>, <<<<"s","q","u","a","r","f",";">>,<<9642>>>>,
      <<<<"s","q","u","f",";">>,<<9642>>>>, <<<<"s","r","a","r","r",";">>,<<8594>>>>,
      <<<<"s","s","c","r",";">>,<<55349,56520>>>>, <<<<"s","s","e","t","m","n",";">>,<<8726>>>>,
      <<<<"s","s","m","i","l","e",";">>,<<8995>>>>, <<<<"s","s","t","a","r","f",";">>,<<8902>>>>,
      <<<<"s","t","a","r",";">>,<<9734>>>>, <<<<"s","t","a","r","f",";">>,<<9733>>>>,
      <<<<"s","t","r","a","i","g","h","t","e","p","s","i","l","o","n",";">>,<<1013>>>>,
      <<<<"s","t","r","a","i","g","h","t","p","h","i",";">>,<<981>>>>, <<<<"s","t","r","n","s",";">>,<<175>>>>,
      <<<<"s","u","b",";">>,<<8834>>>>, <<<<"s","u","b","E",";">>,<<10949>>>>,
      <<<<"s","u","b","d","o","t",";">>,<<10941>>>>, <<<<"s","u","b","e",";">>,<<8838>>>>,
      <<<<"s","u","b","e","d","o","t",";">>,<<10947>>>>, <<<<"s","u","b","m","u","l","t",";">>,<<10945>>>>,
      <<<<"s","u","b","n","E",";">>,<<10955>>>>, <<<<"s","u","b","n","e",";">>,<<8842>>>>,
      <<<<"s","u","b","p","l","u","s",";">>,<<10943>>>>, <<<<"s","u","b","r","a","r","r",";">>,<<10617>>>>,
      <<<<"s","u","b","s","e","t",";">>,<<8834>>>>, <<<<"s","u","b","s","e","t","e","q",";">>,<<8838>>>>,
      <<<<"s","u","b","s","e","t","e","q","q",";">>,<<10949>>>>,
      <<<<"s","u","b","s","e","t","n","e","q",";">>,<<8842>>>>,
      <<<<"s","u","b","s","e","t","n","e","q","q",";">>,<<10955>>>>, <<<<"s","u","b","s","i","m",";">>,<<10951>>>>,
      <<<<"s","u","b","s","u","b",";">>,<<10965>>>>, <<<<"s","u","b","s","u","p",";">>,<<10963>>>>,
      <<<<"s","u","c","c",";">>,<<8827>>>>, <<<<"s","u","c","c","a","p","p","r","o","x",";">>,<<10936>>>>,
      <<<<"s","u","c","c","c","u","r","l","y","e","q",";">>,<<8829>>>>,
      <<<<"s","u","c","c","e","q",";">>,<<10928>>>>,
      <<<<"s","u","c","c","n","a","p","p","r","o","x",";">>,<<10938>>>>,
      <<<<"s","u","c","c","n","e","q","q",";">>,<<10934>>>>, <<<<"s","u","c","c","n","s","i","m",";">>,<<8937>>>>,
      <<<<"s","u","c","c","s","i","m",";">>,<<8831>>>>, <<<<"s","u","m",";">>,<<8721>>>>,
      <<<<"s","u","n","g",";">>,<<9834>>>>, <<<<"s","u","p","1">>,<<185>>>>, <<<<"s","u","p","1",";">>,<<185>>>>,
      <<<<"s","u","p","2">>,<<178>>>>, <<<<"s","u","p","2",";">>,<<178>>>>, <<<<"s","u","p","3">>,<<179>>>>,
      <<<<"s","u","p","3",";">>,<<179>>>>, <<<<"s","u","p",";">>,<<8835>>>>, <<<<"s","u","p","E",";">>,<<10950>>>>,
      <<<<"s","u","p","d","o","t",";">>,<<10942>>>>, <<<<"s","u","p","d","s","u","b",";">>,<<10968>>>>,
      <<<<"s","u","p","e",";">>,<<8839>>>>, <<<<"s","u","p","e","d","o","t",";">>,<<10948>>>>,
      <<<<"s","u","p","h","s","o","l",";">>,<<10185>>>>, <<<<"s","u","p","h","s","u","b",";">>,<<10967>>>>,
      <<<<"s","u","p","l","a","r","r",";">>,<<10619>>>>, <<<<"s","u","p","m","u","l","t",";">>,<<10946>>>>,
      <<<<"s","u","p","n","E",";">>,<<10956>>>>, <<<<"s","u","p","n","e",";">>,<<8843>>>>,
      <<<<"s","u","p","p","l","u","s",";">>,<<10944>>>>, <<<<"s","u","p","s","e","t",";">>,<<8835>>>>,
      <<<<"s","u","p","s","e","t","e","q",";">>,<<8839>>>>,
      <<<<"s","u","p","s","e","t","e","q","q",";">>,<<10950>>>>,
      <<<<"s","u","p","s","e","t","n","e","q",";">>,<<8843>>>>,
      <<<<"s","u","p","s","e","t","n","e","q","q",";">>,<<10956>>>>, <<<<"s","u","p","s","i","m",";">>,<<10952>>>>,
      <<<<"s","u","p","s","u","b",";">>,<<10964>>>>, <<<<"s","u","p","s","u","p",";">>,<<10966>>>>,
      <<<<"s","w","A","r","r",";">>,<<8665>>>>, <<<<"s","w","a","r","h","k",";">>,<<10534>>>>,
      <<<<"s","w","a","r","r",";">>,<<8601>>>>, <<<<"s","w","a","r","r","o","w",";">>,<<8601>>>>,
      <<<<"s","w","n","w","a","r",";">>,<<10538>>>>, <<<<"s","z","l","i","g">>,<<223>>>>,
      <<<<"s","z","l","i","g",";">>,<<223>>>>, <<<<"t","a","r","g","e","t",";">>,<<8982>>>>,
      <<<<"t","a","u",";">>,<<964>>>>, <<<<"t","b","r","k",";">>,<<9140>>>>,
      <<<<"t","c","a","r","o","n",";">>,<<357>>>>, <<<<"t","c","e","d","i","l",";">>,<<355>>>>,
      <<<<"t","c","y",";">>,<<1090>>>>, <<<<"t","d","o","t",";">>,<<8411>>>>,
      <<<<"t","e","l","r","e","c",";">>,<<8981>>>>, <<<<"t","f","r",";">>,<<55349,56625>>>>,
      <<<<"t","h","e","r","e","4",";">>,<<8756>>>>, <<<<"t","h","e","r","e","f","o","r","e",";">>,<<8756>>>>,
      <<<<"t","h","e","t","a",";">>,<<952>>>>, <<<<"t","h","e","t","a","s","y","m",";">>,<<977>>>>,
      <<<<"t","h","e","t","a","v",";">>,<<977>>>>, <<<<"t","h","i","c","k","a","p","p","r","o","x",";">>,<<8776>>>>,
      <<<<"t","h","i","c","k","s","i","m",";">>,<<8764>>>>, <<<<"t","h","i","n","s","p",";">>,<<8201>>>>,
      <<<<"t","h","k","a","p",";">>,<<8776>>>>, <<<<"t","h","k","s","i","m",";">>,<<8764>>>>,
      <<<<"t","h","o","r","n">>,<<254>>>>, <<<<"t","h","o","r","n",";">>,<<254>>>>,
      <<<<"t","i","l","d","e",";">>,<<732>>>>, <<<<"t","i","m","e","s">>,<<215>>>>,
      <<<<"t","i","m","e","s",";">>,<<215>>>>, <<<<"t","i","m","e","s","b",";">>,<<8864>>>>,
      <<<<"t","i","m","e","s","b","a","r",";">>,<<10801>>>>, <<<<"t","i","m","e","s","d",";">>,<<10800>>>>,
      <<<<"t","i","n","t",";">>,<<8749>>>>, <<<<"t","o","e","a",";">>,<<10536>>>>, <<<<"t","o","p",";">>,<<8868>>>>,
      <<<<"t","o","p","b","o","t",";">>,<<9014>>>>, <<<<"t","o","p","c","i","r",";">>,<<10993>>>>,
      <<<<"t","o","p","f",";">>,<<55349,56677>>>>, <<<<"t","o","p","f","o","r","k",";">>,<<10970>>>>,
      <<<<"t","o","s","a",";">>,<<10537>>>>, <<<<"t","p","r","i","m","e",";">>,<<8244>>>>,
      <<<<"t","r","a","d","e",";">>,<<8482>>>>, <<<<"t","r","i","a","n","g","l","e",";">>,<<9653>>>>,
      <<<<"t","r","i","a","n","g","l","e","d","o","w","n",";">>,<<9663>>>>,
      <<<<"t","r","i","a","n","g","l","e","l","e","f","t",";">>,<<9667>>>>,
      <<<<"t","r","i","a","n","g","l","e","l","e","f","t","e","q",";">>,<<8884>>>>,
      <<<<"t","r","i","a","n","g","l","e","q",";">>,<<8796>>>>,
      <<<<"t","r","i","a","n","g","l","e","r","i","g","h","t",";">>,<<9657>>>>,
      <<<<"t","r","i","a","n","g","l","e","r","i","g","h","t","e","q",";">>,<<8885>>>>,
      <<<<"t","r","i","d","o","t",";">>,<<9708>>>>, <<<<"t","r","i","e",";">>,<<8796>>>>,
      <<<<"t","r","i","m","i","n","u","s",";">>,<<10810>>>>, <<<<"t","r","i","p","l","u","s",";">>,<<10809>>>>,
      <<<<"t","r","i","s","b",";">>,<<10701>>>>, <<<<"t","r","i","t","i","m","e",";">>,<<10811>>>>,
      <<<<"t","r","p","e","z","i","u","m",";">>,<<9186>>>>, <<<<"t","s","c","r",";">>,<<55349,56521>>>>,
      <<<<"t","s","c","y",";">>,<<1094>>>>, <<<<"t","s","h","c","y",";">>,<<1115>>>>,
      <<<<"t","s","t","r","o","k",";">>,<<359>>>>, <<<<"t","w","i","x","t",";">>,<<8812>>>>,
      <<<<"t","w","o","h","e","a","d","l","e","f","t","a","r","r","o","w",";">>,<<8606>>>>,
      <<<<"t","w","o","h","e","a","d","r","i","g","h","t","a","r","r","o","w",";">>,<<8608>>>>,
      <<<<"u","A","r","r",";">>,<<8657>>>>, <<<<"u","H","a","r",";">>,<<10595>>>>,
      <<<<"u","a","c","u","t","e">>,<<250>>>>, <<<<"u","a","c","u","t","e",";">>,<<250>>>>,
      <<<<"u","a","r","r",";">>,<<8593>>>>, <<<<"u","b","r","c","y",";">>,<<1118>>>>,
      <<<<"u","b","r","e","v","e",";">>,<<365>>>>, <<<<"u","c","i","r","c">>,<<251>>>>,
      <<<<"u","c","i","r","c",";">>,<<251>>>>, <<<<"u","c","y",";">>,<<1091>>>>,
      <<<<"u","d","a","r","r",";">>,<<8645>>>>, <<<<"u","d","b","l","a","c",";">>,<<369>>>>,
      <<<<"u","d","h","a","r",";">>,<<10606>>>>, <<<<"u","f","i","s","h","t",";">>,<<10622>>>>,
      <<<<"u","f","r",";">>,<<55349,56626>>>>, <<<<"u","g","r","a","v","e">>,<<249>>>>,
      <<<<"u","g","r","a","v","e",";">>,<<249>>>>, <<<<"u","h","a","r","l",";">>,<<8639>>>>,
      <<<<"u","h","a","r","r",";">>,<<8638>>>>, <<<<"u","h","b","l","k",";">>,<<9600>>>>,
      <<<<"u","l","c","o","r","n",";">>,<<8988>>>>, <<<<"u","l","c","o","r","n","e","r",";">>,<<8988>>>>,
      <<<<"u","l","c","r","o","p",";">>,<<8975>>>>, <<<<"u","l","t","r","i",";">>,<<9720>>>>,
      <<<<"u","m","a","c","r",";">>,<<363>>>>, <<<<"u","m","l">>,<<168>>>>, <<<<"u","m","l",";">>,<<168>>>>,
      <<<<"u","o","g","o","n",";">>,<<371>>>>, <<<<"u","o","p","f",";">>,<<55349,56678>>>>,
      <<<<"u","p","a","r","r","o","w",";">>,<<8593>>>>,
      <<<<"u","p","d","o","w","n","a","r","r","o","w",";">>,<<8597>>>>,
      <<<<"u","p","h","a","r","p","o","o","n","l","e","f","t",";">>,<<8639>>>>,
      <<<<"u","p","h","a","r","p","o","o","n","r","i","g","h","t",";">>,<<8638>>>>,
      <<<<"u","p","l","u","s",";">>,<<8846>>>>, <<<<"u","p","s","i",";">>,<<965>>>>,
      <<<<"u","p","s","i","h",";">>,<<978>>>>, <<<<"u","p","s","i","l","o","n",";">>,<<965>>>>,
      <<<<"u","p","u","p","a","r","r","o","w","s",";">>,<<8648>>>>, <<<<"u","r","c","o","r","n",";">>,<<8989>>>>,
      <<<<"u","r","c","o","r","n","e","r",";">>,<<8989>>>>, <<<<"u","r","c","r","o","p",";">>,<<8974>>>>,
      <<<<"u","r","i","n","g",";">>,<<367>>>>, <<<<"u","r","t","r","i",";">>,<<9721>>>>,
      <<<<"u","s","c","r",";">>,<<55349,56522>>>>, <<<<"u","t","d","o","t",";">>,<<8944>>>>,
      <<<<"u","t","i","l","d","e",";">>,<<361>>>>, <<<<"u","t","r","i",";">>,<<9653>>>>,
      <<<<"u","t","r","i","f",";">>,<<9652>>>>, <<<<"u","u","a","r","r",";">>,<<8648>>>>,
      <<<<"u","u","m","l">>,<<252>>>>, <<<<"u","u","m","l",";">>,<<252>>>>,
      <<<<"u","w","a","n","g","l","e",";">>,<<10663>>>>, <<<<"v","A","r","r",";">>,<<8661>>>>,
      <<<<"v","B","a","r",";">>,<<10984>>>>, <<<<"v","B","a","r","v",";">>,<<10985>>>>,
      <<<<"v","D","a","s","h",";">>,<<8872>>>>, <<<<"v","a","n","g","r","t",";">>,<<10652>>>>,
      <<<<"v","a","r","e","p","s","i","l","o","n",";">>,<<1013>>>>,
      <<<<"v","a","r","k","a","p","p","a",";">>,<<1008>>>>,
      <<<<"v","a","r","n","o","t","h","i","n","g",";">>,<<8709>>>>, <<<<"v","a","r","p","h","i",";">>,<<981>>>>,
      <<<<"v","a","r","p","i",";">>,<<982>>>>, <<<<"v","a","r","p","r","o","p","t","o",";">>,<<8733>>>>,
      <<<<"v","a","r","r",";">>,<<8597>>>>, <<<<"v","a","r","r","h","o",";">>,<<1009>>>>,
      <<<<"v","a","r","s","i","g","m","a",";">>,<<962>>>>,
      <<<<"v","a","r","s","u","b","s","e","t","n","e","q",";">>,<<8842,65024>>>>,
      <<<<"v","a","r","s","u","b","s","e","t","n","e","q","q",";">>,<<10955,65024>>>>,
      <<<<"v","a","r","s","u","p","s","e","t","n","e","q",";">>,<<8843,65024>>>>,
      <<<<"v","a","r","s","u","p","s","e","t","n","e","q","q",";">>,<<10956,65024>>>>,
      <<<<"v","a","r","t","h","e","t","a",";">>,<<977>>>>,
      <<<<"v","a","r","t","r","i","a","n","g","l","e","l","e","f","t",";">>,<<8882>>>>,
      <<<<"v","a","r","t","r","i","a","n","g","l","e","r","i","g","h","t",";">>,<<8883>>>>,
      <<<<"v","c","y",";">>,<<1074>>>>, <<<<"v","d","a","s","h",";">>,<<8866>>>>, <<<<"v","e","e",";">>,<<8744>>>>,
      <<<<"v","e","e","b","a","r",";">>,<<8891>>>>, <<<<"v","e","e","e","q",";">>,<<8794>>>>,
      <<<<"v","e","l","l","i","p",";">>,<<8942>>>>, <<<<"v","e","r","b","a","r",";">>,<<124>>>>,
      <<<<"v","e","r","t",";">>,<<124>>>>, <<<<"v","f","r",";">>,<<55349,56627>>>>,
      <<<<"v","l","t","r","i",";">>,<<8882>>>>, <<<<"v","n","s","u","b",";">>,<<8834,8402>>>>,
      <<<<"v","n","s","u","p",";">>,<<8835,8402>>>>, <<<<"v","o","p","f",";">>,<<55349,56679>>>>,
      <<<<"v","p","r","o","p",";">>,<<8733>>>>, <<<<"v","r","t","r","i",";">>,<<8883>>>>,
      <<<<"v","s","c","r",";">>,<<55349,56523>>>>, <<<<"v","s","u","b","n","E",";">>,<<10955,65024>>>>,
      <<<<"v","s","u","b","n","e",";">>,<<8842,65024>>>>, <<<<"v","s","u","p","n","E",";">>,<<10956,65024>>>>,
      <<<<"v","s","u","p","n","e",";">>,<<8843,65024>>>>, <<<<"v","z","i","g","z","a","g",";">>,<<10650>>>>,
      <<<<"w","c","i","r","c",";">>,<<373>>>>, <<<<"w","e","d","b","a","r",";">>,<<10847>>>>,
      <<<<"w","e","d","g","e",";">>,<<8743>>>>, <<<<"w","e","d","g","e","q",";">>,<<8793>>>>,
      <<<<"w","e","i","e","r","p",";">>,<<8472>>>>, <<<<"w","f","r",";">>,<<55349,56628>>>>,
      <<<<"w","o","p","f",";">>,<<55349,56680>>>>, <<<<"w","p",";">>,<<8472>>>>, <<<<"w","r",";">>,<<8768>>>>,
      <<<<"w","r","e","a","t","h",";">>,<<8768>>>>, <<<<"w","s","c","r",";">>,<<55349,56524>>>>,
      <<<<"x","c","a","p",";">>,<<8898>>>>, <<<<"x","c","i","r","c",";">>,<<9711>>>>,
      <<<<"x","c","u","p",";">>,<<8899>>>>, <<<<"x","d","t","r","i",";">>,<<9661>>>>,
      <<<<"x","f","r",";">>,<<55349,56629>>>>, <<<<"x","h","A","r","r",";">>,<<10234>>>>,
      <<<<"x","h","a","r","r",";">>,<<10231>>>>, <<<<"x","i",";">>,<<958>>>>,
      <<<<"x","l","A","r","r",";">>,<<10232>>>>, <<<<"x","l","a","r","r",";">>,<<10229>>>>,
      <<<<"x","m","a","p",";">>,<<10236>>>>, <<<<"x","n","i","s",";">>,<<8955>>>>,
      <<<<"x","o","d","o","t",";">>,<<10752>>>>, <<<<"x","o","p","f",";">>,<<55349,56681>>>>,
      <<<<"x","o","p","l","u","s",";">>,<<10753>>>>, <<<<"x","o","t","i","m","e",";">>,<<10754>>>>,
      <<<<"x","r","A","r","r",";">>,<<10233>>>>, <<<<"x","r","a","r","r",";">>,<<10230>>>>,
      <<<<"x","s","c","r",";">>,<<55349,56525>>>>, <<<<"x","s","q","c","u","p",";">>,<<10758>>>>,
      <<<<"x","u","p","l","u","s",";">>,<<10756>>>>, <<<<"x","u","t","r","i",";">>,<<9651>>>>,
      <<<<"x","v","e","e",";">>,<<8897>>>>, <<<<"x","w","e","d","g","e",";">>,<<8896>>>>,
      <<<<"y","a","c","u","t","e">>,<<253>>>>, <<<<"y","a","c","u","t","e",";">>,<<253>>>>,
      <<<<"y","a","c","y",";">>,<<1103>>>>, <<<<"y","c","i","r","c",";">>,<<375>>>>,
      <<<<"y","c","y",";">>,<<1099>>>>, <<<<"y","e","n">>,<<165>>>>, <<<<"y","e","n",";">>,<<165>>>>,
      <<<<"y","f","r",";">>,<<55349,56630>>>>, <<<<"y","i","c","y",";">>,<<1111>>>>,
      <<<<"y","o","p","f",";">>,<<55349,56682>>>>, <<<<"y","s","c","r",";">>,<<55349,56526>>>>,
      <<<<"y","u","c","y",";">>,<<1102>>>>, <<<<"y","u","m","l">>,<<255>>>>, <<<<"y","u","m","l",";">>,<<255>>>>,
      <<<<"z","a","c","u","t","e",";">>,<<378>>>>, <<<<"z","c","a","r","o","n",";">>,<<382>>>>,
      <<<<"z","c","y",";">>,<<1079>>>>, <<<<"z","d","o","t",";">>,<<380>>>>,
      <<<<"z","e","e","t","r","f",";">>,<<8488>>>>, <<<<"z","e","t","a",";">>,<<950>>>>,
      <<<<"z","f","r",";">>,<<55349,56631>>>>, <<<<"z","h","c","y",";">>,<<1078>>>>,
      <<<<"z","i","g","r","a","r","r",";">>,<<8669>>>>, <<<<"z","o","p","f",";">>,<<55349,56683>>>>,
      <<<<"z","s","c","r",";">>,<<55349,56527>>>>, <<<<"z","w","j",";">>,<<8205>>>>,
      <<<<"z","w","n","j",";">>,<<8204>>>>
    }

EntityNames == {e[1] : e \in EntityTable}

EntityValue(name) == (CHOOSE e \in EntityTable : e[1] = name)[2]

\* The length of the longest name that starts at position i (the walk down
\* the entity trie; no name is longer than 32), or 0.  Where a reference
\* needs its ";" (not legacy), only the names that end in ";" count.
LongestEntity(s, i, legacy) ==
    LET Longest(lens) ==
            IF lens = {} THEN 0 ELSE CHOOSE L \in lens : \A K \in lens : K <= L
    IN  Longest({L \in 1..Min(32, Len(s) - i + 1) :
                    /\ SubSeq(s, i, i + L - 1) \in EntityNames
                    /\ legacy \/ s[i + L - 1] = ";"})

\* The code points a numeric reference is not decoded to, and what it
\* gives instead.
decodeMap ==
    <<<<0,65533>>, <<128,8364>>, <<130,8218>>, <<131,402>>, <<132,8222>>, <<133,8230>>,
      <<134,8224>>, <<135,8225>>, <<136,710>>, <<137,8240>>, <<138,352>>, <<139,8249>>,
      <<140,338>>, <<142,381>>, <<145,8216>>, <<146,8217>>, <<147,8220>>, <<148,8221>>,
      <<149,8226>>, <<150,8211>>, <<151,8212>>, <<152,732>>, <<153,8482>>, <<154,353>>,
      <<155,8250>>, <<156,339>>, <<158,382>>, <<159,376>>>>

replaceCodePoint(cp) ==
    IF (cp >= 55296 /\ cp <= 57343) \/ cp > 1114111 THEN 65533
    ELSE IF \E k \in 1..Len(decodeMap) : decodeMap[k][1] = cp
    THEN decodeMap[CHOOSE k \in 1..Len(decodeMap) : decodeMap[k][1] = cp][2]
    ELSE cp

RECURSIVE fromCodeUnits(_)
fromCodeUnits(ns) ==
    IF ns = <<>> THEN <<>> ELSE <<Chr(Head(ns))>> \o fromCodeUnits(Tail(ns))

\* The tokenizer's character tests.
isWhitespace(c) == c \in {" ", "\n", "\t", "\f", "\r"}

isEndOfTagSection(c) == c \in {"/", ">"} \/ isWhitespace(c)

isASCIIAlpha(c) == c \in Letter

isNumber(c) == c \in Digit

isHexDigit(c) == c \in Range(65, 70) \cup Range(97, 102)

\* The characters c with (c | 0x20) equal to the character x of an end
\* sequence.
Fold(x) ==
    IF x = "<" THEN {"<", Chr(28)}
    ELSE IF x = "/" THEN {"/", Chr(15)}
    ELSE {x, Chr(Code(x) - 32)}

\* The end sequences of the tags whose content is raw text, of comments and
\* of CDATA sections.
Sequences ==
    [Cdata      |-> <<"C","D","A","T","A","[">>,
     CdataEnd   |-> <<"]","]",">">>,
     CommentEnd |-> <<"-","-",">">>,
     ScriptEnd  |-> <<"<","/","s","c","r","i","p","t">>,
     StyleEnd   |-> <<"<","/","s","t","y","l","e">>,
     TitleEnd   |-> <<"<","/","t","i","t","l","e">>]

\* The tokenizer, the parser and the sanitizer when parsing starts:
\*   st, base     the tokenizer's state and the state an entity returns to
\*   sect         sectionStart, as a position from 1 (0 is its -1)
\*   seq, si      currentSequence and sequenceIndex
\*   special      isSpecial
\*   ex, er       entityExcess and entityResult
\*   stack        the parser's open elements, foreign its foreignContext,
\*                tagname the tag whose name was read and whose ">" was not
\*   out          the text sanitize-html has kept
T0 ==
    [st |-> "Text", base |-> "Text", sect |-> 1, seq |-> <<>>, si |-> 0,
     special |-> FALSE, ex |-> 0, er |-> 0,
     stack |-> <<>>, foreign |-> <<>>, tagname |-> <<>>, out |-> <<>>]

\* The tokenizer's position after a step, and the state.
Nx(i, t) == [i |-> i, t |-> t]

\* sanitize-html skips text (skipText) while an element that is one of the
\* nonTextTags is open.  It learns of an element from onopentag, at the end
\* of the opening tag: the element on top of the parser's stack whose tag
\* has not ended yet is not open for it.
Skip(t) ==
    LET n == IF t.tagname # <<>> /\ t.tagname \notin voidElements
             THEN Len(t.stack) - 1 ELSE Len(t.stack)
    IN  \E k \in 1..n : t.stack[k] \in NonTextTags

\* sanitize-html's ontext for the given characters.
EmitChars(t, cs) == IF Skip(t) THEN t ELSE [t EXCEPT !.out = @ \o cs]

\* The parser's ontext for the characters a to b of the input.
ontext(s, t, a, b) == EmitChars(t, SubSeq(s, a, b))

\* Whether a reference may go without its ";": in text, not in an
\* attribute value.
allowLegacyEntity(t) == t.base \in {"Text", "InSpecialTag"}

\* The tokenizer's emitPartial: the characters a to b are text, or part of
\* an attribute value, which sanitize-html drops with the tag.
emitPartial(s, t, a, b) == IF allowLegacyEntity(t) THEN ontext(s, t, a, b) ELSE t

\* The tokenizer's emitCodePoint, for the characters of a reference.
emitCodePoint(t, cs) == IF allowLegacyEntity(t) THEN EmitChars(t, cs) ELSE t

RECURSIVE PopWhile(_, _)
\* Close the open elements on top of the stack that are in the set.
PopWhile(stack, set) ==
    IF stack # <<>> /\ stack[Len(stack)] \in set
    THEN PopWhile(SubSeq(stack, 1, Len(stack) - 1), set)
    ELSE stack

\* The parser's emitOpenTag.
emitOpenTag(t, name) ==
    LET closed == PopWhile(t.stack, openImpliesClose(name))
    IN  [t EXCEPT !.tagname = name,
                  !.stack = IF name \in voidElements THEN closed ELSE Append(closed, name),
                  !.foreign = IF name \in voidElements THEN @
                              ELSE IF name \in foreignContextElements THEN Append(@, TRUE)
                              ELSE IF name \in htmlIntegrationElements THEN Append(@, FALSE)
                              ELSE @]

\* The parser's onopentagname: the name of a tag that opens, in lower case.
onopentagname(s, t, a, b) == emitOpenTag(t, toLowerCase(SubSeq(s, a, b)))

\* The parser's onopentagend.
onopentagend(t) == [t EXCEPT !.tagname = <<>>]

\* The parser's closeCurrentTag.
closeCurrentTag(t) ==
    IF t.stack # <<>> /\ t.stack[Len(t.stack)] = t.tagname
    THEN [t EXCEPT !.stack = SubSeq(@, 1, Len(@) - 1), !.tagname = <<>>]
    ELSE [t EXCEPT !.tagname = <<>>]

\* The parser's onselfclosingtag: a self-closing tag closes only in SVG or
\* MathML.
onselfclosingtag(t) ==
    IF t.foreign # <<>> /\ t.foreign[Len(t.foreign)]
    THEN closeCurrentTag(t)
    ELSE onopentagend(t)

RECURSIVE LastIndexOfName(_, _, _)
LastIndexOfName(stack, name, i) ==
    IF i < 1 THEN 0
    ELSE IF stack[i] = name THEN i
    ELSE LastIndexOfName(stack, name, i - 1)

\* The parser's onclosetag: the element of that name which opened last is
\* closed with everything opened after it; a closing tag without an open
\* element changes nothing (</p> and </br> open and close one at once).
onclosetag(s, t, a, b) ==
    LET Close(name) ==
            LET pos == LastIndexOfName(t.stack, name, Len(t.stack))
                t1  == IF name \in foreignContextElements \cup htmlIntegrationElements
                          /\ t.foreign # <<>>
                       THEN [t EXCEPT !.foreign = SubSeq(@, 1, Len(@) - 1)]
                       ELSE t
            IN  IF name \notin voidElements /\ pos # 0
                THEN [t1 EXCEPT !.stack = SubSeq(@, 1, pos - 1)]
                ELSE t1
    IN  Close(toLowerCase(SubSeq(s, a, b)))

stateText(s, i, t) ==
    IF s[i] = "<"
    THEN Nx(i + 1, [ontext(s, t, t.sect, i - 1) EXCEPT !.st = "BeforeTagName", !.sect = i])
    ELSE IF s[i] = "&"
    THEN Nx(i + 1, [t EXCEPT !.st = "BeforeEntity"])
    ELSE Nx(i + 1, t)

stateBeforeAttributeName(s, i, t) ==
    IF s[i] = ">"
    THEN LET st == IF t.special THEN "InSpecialTag" ELSE "Text"
         IN  Nx(i + 1, [onopentagend(t) EXCEPT !.st = st, !.base = st, !.sect = i + 1,
                                               !.si = IF t.special THEN 0 ELSE @])
    ELSE IF s[i] = "/"
    THEN Nx(i + 1, [t EXCEPT !.st = "InSelfClosingTag"])
    ELSE IF ~isWhitespace(s[i])
    THEN Nx(i + 1, [t EXCEPT !.st = "InAttributeName", !.sect = i])
    ELSE Nx(i + 1, t)

stateInTagName(s, i, t) ==
    IF isEndOfTagSection(s[i])
    THEN stateBeforeAttributeName(s, i,
             [onopentagname(s, t, t.sect, i - 1) EXCEPT !.sect = 0,
                                                       !.st = "BeforeAttributeName"])
    ELSE Nx(i + 1, t)

stateInSelfClosingTag(s, i, t) ==
    IF s[i] = ">"
    THEN Nx(i + 1, [onselfclosingtag(t) EXCEPT !.st = "Text", !.base = "Text",
                                               !.sect = i + 1, !.special = FALSE])
    ELSE IF ~isWhitespace(s[i])
    THEN stateBeforeAttributeName(s, i, [t EXCEPT !.st = "BeforeAttributeName"])
    ELSE Nx(i + 1, t)

stateAfterAttributeName(s, i, t) ==
    IF s[i] = "="
    THEN Nx(i + 1, [t EXCEPT !.st = "BeforeAttributeValue"])
    ELSE IF s[i] \in {"/", ">"}
    THEN stateBeforeAttributeName(s, i, [t EXCEPT !.st = "BeforeAttributeName"])
    ELSE IF ~isWhitespace(s[i])
    THEN Nx(i + 1, [t EXCEPT !.st = "InAttributeName", !.sect = i])
    ELSE Nx(i + 1, t)

stateInAttributeName(s, i, t) ==
    IF s[i] = "=" \/ isEndOfTagSection(s[i])
    THEN stateAfterAttributeName(s, i, [t EXCEPT !.sect = 0, !.st = "AfterAttributeName"])
    ELSE Nx(i + 1, t)

\* An unquoted attribute value; a reference in it returns to this state.
stateInAttributeValueNoQuotes(s, i, t) ==
    IF isWhitespace(s[i]) \/ s[i] = ">"
    THEN stateBeforeAttributeName(s, i, [t EXCEPT !.sect = 0, !.st = "BeforeAttributeName"])
    ELSE IF s[i] = "&"
    THEN Nx(i + 1, [t EXCEPT !.base = t.st, !.st = "BeforeEntity"])
    ELSE Nx(i + 1, t)

stateBeforeAttributeValue(s, i, t) ==
    IF s[i] = "\""
    THEN Nx(i + 1, [t EXCEPT !.st = "InAttributeValueDq", !.sect = i + 1])
    ELSE IF s[i] = "'"
    THEN Nx(i + 1, [t EXCEPT !.st = "InAttributeValueSq", !.sect = i + 1])
    ELSE IF ~isWhitespace(s[i])
    THEN stateInAttributeValueNoQuotes(s, i,
             [t EXCEPT !.st = "InAttributeValueNq", !.sect = i])
    ELSE Nx(i + 1, t)

\* A quoted attribute value: up to the closing quote; a reference in it
\* returns to this state.
handleInAttributeValue(s, i, t, quote) ==
    IF s[i] = quote
    THEN Nx(i + 1, [t EXCEPT !.sect = 0, !.st = "BeforeAttributeName"])
    ELSE IF s[i] = "&"
    THEN Nx(i + 1, [t EXCEPT !.base = t.st, !.st = "BeforeEntity"])
    ELSE Nx(i + 1, t)

\* Everything up to the next ">" is skipped; without one, the rest of the
\* input.
stateAfterClosingTagName(s, i, t) ==
    LET j == IF s[i] = ">" THEN i ELSE FindFrom(s, {">"}, i + 1)
    IN  IF j # 0
        THEN Nx(j + 1, [t EXCEPT !.st = "Text", !.base = "Text", !.sect = j + 1])
        ELSE Nx(Len(s) + 1, t)

stateInClosingTagName(s, i, t) ==
    IF s[i] = ">" \/ isWhitespace(s[i])
    THEN stateAfterClosingTagName(s, i,
             [onclosetag(s, t, t.sect, i - 1) EXCEPT !.sect = 0,
                                                    !.st = "AfterClosingTagName"])
    ELSE Nx(i + 1, t)

stateBeforeClosingTagName(s, i, t) ==
    IF isWhitespace(s[i]) THEN Nx(i + 1, t)
    ELSE IF s[i] = ">" THEN Nx(i + 1, [t EXCEPT !.st = "Text"])
    ELSE Nx(i + 1, [t EXCEPT !.st = IF isASCIIAlpha(s[i]) THEN "InClosingTagName"
                                    ELSE "InSpecialComment",
                             !.sect = i])

\* A declaration, a processing instruction or a bogus comment: up to the
\* next ">".
stateInDeclaration(s, i, t) ==
    LET j == IF s[i] = ">" THEN i ELSE FindFrom(s, {">"}, i + 1)
    IN  IF j # 0
        THEN Nx(j + 1, [t EXCEPT !.st = "Text", !.sect = j + 1])
        ELSE Nx(Len(s) + 1, t)

stateInProcessingInstruction(s, i, t) == stateInDeclaration(s, i, t)

stateInSpecialComment(s, i, t) == stateInDeclaration(s, i, t)

stateBeforeDeclaration(s, i, t) ==
    IF s[i] = "["
    THEN Nx(i + 1, [t EXCEPT !.st = "CDATASequence", !.si = 0])
    ELSE Nx(i + 1, [t EXCEPT !.st = IF s[i] = "-" THEN "BeforeComment"
                                    ELSE "InDeclaration"])

stateBeforeComment(s, i, t) ==
    IF s[i] = "-"
    THEN Nx(i + 1, [t EXCEPT !.st = "InCommentLike", !.seq = Sequences.CommentEnd, !.si = 2,
                             !.sect = i + 1])
    ELSE Nx(i + 1, [t EXCEPT !.st = "InDeclaration"])

stateCDATASequence(s, i, t) ==
    IF s[i] = Sequences.Cdata[t.si + 1]
    THEN IF t.si + 1 = Len(Sequences.Cdata)
         THEN Nx(i + 1, [t EXCEPT !.st = "InCommentLike", !.seq = Sequences.CdataEnd, !.si = 0,
                                  !.sect = i + 1])
         ELSE Nx(i + 1, [t EXCEPT !.si = @ + 1])
    ELSE stateInDeclaration(s, i, [t EXCEPT !.si = 0, !.st = "InDeclaration"])

\* A comment or a CDATA section: up to its end sequence.
stateInCommentLike(s, i, t) ==
    IF s[i] = t.seq[t.si + 1]
    THEN IF t.si + 1 = Len(t.seq)
         THEN Nx(i + 1, [t EXCEPT !.si = 0, !.sect = i + 1, !.st = "Text"])
         ELSE Nx(i + 1, [t EXCEPT !.si = @ + 1])
    ELSE IF t.si = 0
    THEN LET j == FindFrom(s, {t.seq[1]}, i + 1)
         IN  IF j # 0 THEN Nx(j + 1, [t EXCEPT !.si = 1]) ELSE Nx(Len(s) + 1, t)
    ELSE IF s[i] # t.seq[t.si]
    THEN Nx(i + 1, [t EXCEPT !.si = 0])
    ELSE Nx(i + 1, t)

\* The raw text of <script>, <style> and <title>: up to the end tag of that
\* name; in <title> references are decoded.
stateInSpecialTag(s, i, t) ==
    IF t.si = Len(t.seq) /\ (s[i] = ">" \/ isWhitespace(s[i]))
    THEN LET endOfText == i - Len(t.seq)
             t1 == IF t.sect < endOfText THEN ontext(s, t, t.sect, endOfText - 1) ELSE t
         IN  stateInClosingTagName(s, i,
                 [t1 EXCEPT !.special = FALSE, !.sect = endOfText + 2,
                            !.st = "InClosingTagName"])
    ELSE LET si == IF t.si = Len(t.seq) THEN 0 ELSE t.si
         IN  IF s[i] \in Fold(t.seq[si + 1])
             THEN Nx(i + 1, [t EXCEPT !.si = si + 1])
             ELSE IF si = 0
             THEN IF t.seq = Sequences.TitleEnd
                  THEN Nx(i + 1, [t EXCEPT !.si = 0,
                                           !.st = IF s[i] = "&" THEN "BeforeEntity" ELSE @])
                  ELSE LET j == FindFrom(s, {"<"}, i + 1)
                       IN  IF j # 0 THEN Nx(j + 1, [t EXCEPT !.si = 1])
                           ELSE Nx(Len(s) + 1, [t EXCEPT !.si = 0])
             ELSE Nx(i + 1, [t EXCEPT !.si = IF s[i] = "<" THEN 1 ELSE 0])

\* The name of a tag that starts like <title>, <script> or <style>.
stateSpecialStartSequence(s, i, t) ==
    LET isEnd   == t.si = Len(t.seq)
        isMatch == IF isEnd THEN isEndOfTagSection(s[i])
                   ELSE s[i] \in Fold(t.seq[t.si + 1])
    IN  IF isMatch /\ ~isEnd
        THEN Nx(i + 1, [t EXCEPT !.si = @ + 1])
        ELSE stateInTagName(s, i,
                 [t EXCEPT !.special = IF isMatch THEN @ ELSE FALSE, !.si = 0,
                           !.st = "InTagName"])

startSpecial(t, sequence, offset) ==
    [t EXCEPT !.special = TRUE, !.seq = sequence, !.si = offset,
              !.st = "SpecialStartSequence"]

stateBeforeSpecialS(s, i, t) ==
    IF s[i] \in Fold(Sequences.ScriptEnd[4])
    THEN Nx(i + 1, startSpecial(t, Sequences.ScriptEnd, 4))
    ELSE IF s[i] \in Fold(Sequences.StyleEnd[4])
    THEN Nx(i + 1, startSpecial(t, Sequences.StyleEnd, 4))
    ELSE stateInTagName(s, i, [t EXCEPT !.st = "InTagName"])

stateBeforeTagName(s, i, t) ==
    IF s[i] = "!"
    THEN Nx(i + 1, [t EXCEPT !.st = "BeforeDeclaration", !.sect = i + 1])
    ELSE IF s[i] = "?"
    THEN Nx(i + 1, [t EXCEPT !.st = "InProcessingInstruction", !.sect = i + 1])
    ELSE IF isASCIIAlpha(s[i])
    THEN IF s[i] \in Fold(Sequences.TitleEnd[3])
         THEN Nx(i + 1, startSpecial([t EXCEPT !.sect = i], Sequences.TitleEnd, 3))
         ELSE Nx(i + 1, [t EXCEPT !.sect = i,
                                  !.st = IF s[i] \in Fold(Sequences.ScriptEnd[3])
                                         THEN "BeforeSpecialS" ELSE "InTagName"])
    ELSE IF s[i] = "/"
    THEN Nx(i + 1, [t EXCEPT !.st = "BeforeClosingTagName"])
    ELSE stateText(s, i, [t EXCEPT !.st = "Text"])

\* The tokenizer's emitNumericEntity at position i: the reference is decoded
\* when it has a digit; strict when it ends in ";".
emitNumericEntity(s, i, t, strict) ==
    LET entityStart == i - t.ex - 1
        numberStart == entityStart + 2 + (IF t.st = "InHexEntity" THEN 1 ELSE 0)
    IN  IF numberStart # i
        THEN [emitCodePoint(emitPartial(s, t, t.sect, entityStart - 1),
                            fromCodePoint(replaceCodePoint(t.er)))
                EXCEPT !.sect = i + (IF strict THEN 1 ELSE 0), !.st = t.base]
        ELSE [t EXCEPT !.st = t.base]

\* A digit adds to entityResult; a code point above the last one stays
\* above it (any such reference is decoded to U+FFFD).  A reference without
\* its ";" is decoded in text; in an attribute value it is not a reference.
stateInNumericEntity(s, i, t) ==
    IF s[i] = ";"
    THEN Nx(i + 1, emitNumericEntity(s, i, t, TRUE))
    ELSE IF isNumber(s[i])
    THEN Nx(i + 1, [t EXCEPT !.er = Min(@ * 10 + Code(s[i]) - 48, 1114112), !.ex = @ + 1])
    ELSE IF allowLegacyEntity(t)
    THEN Nx(i, emitNumericEntity(s, i, t, FALSE))
    ELSE Nx(i, [t EXCEPT !.st = t.base])

stateInHexEntity(s, i, t) ==
    IF s[i] = ";"
    THEN Nx(i + 1, emitNumericEntity(s, i, t, TRUE))
    ELSE IF isNumber(s[i])
    THEN Nx(i + 1, [t EXCEPT !.er = Min(@ * 16 + Code(s[i]) - 48, 1114112), !.ex = @ + 1])
    ELSE IF isHexDigit(s[i])
    THEN Nx(i + 1, [t EXCEPT !.er = Min(@ * 16 + Code(CHOOSE x \in LowerCase :
                                                          s[i] \in Fold(x)) - 87,
                                        1114112),
                             !.ex = @ + 1])
    ELSE IF allowLegacyEntity(t)
    THEN Nx(i, emitNumericEntity(s, i, t, FALSE))
    ELSE Nx(i, [t EXCEPT !.st = t.base])

stateBeforeNumericEntity(s, i, t) ==
    IF s[i] \in {"x", "X"}
    THEN Nx(i + 1, [t EXCEPT !.ex = @ + 1, !.st = "InHexEntity"])
    ELSE stateInNumericEntity(s, i, [t EXCEPT !.st = "InNumericEntity"])

\* A named reference (stateInNamedEntity and emitNamedEntity): the longest
\* name of the table that starts here is decoded; without one the "&" is
\* text and the tokenizer reads on from here.
stateInNamedEntity(s, i, t) ==
    LET Emit(L) ==
            IF L = 0
            THEN Nx(i, [t EXCEPT !.st = t.base])
            ELSE Nx(i + L,
                    [emitCodePoint(emitPartial(s, t, t.sect, i - 2),
                                   fromCodeUnits(EntityValue(SubSeq(s, i, i + L - 1))))
                       EXCEPT !.sect = i + L, !.st = t.base])
    IN  Emit(LongestEntity(s, i, allowLegacyEntity(t)))

stateBeforeEntity(s, i, t) ==
    IF s[i] = "#"
    THEN Nx(i + 1, [t EXCEPT !.ex = 1, !.er = 0, !.st = "BeforeNumericEntity"])
    ELSE IF s[i] = "&"
    THEN Nx(i + 1, [t EXCEPT !.ex = 1, !.er = 0])
    ELSE stateInNamedEntity(s, i, [t EXCEPT !.ex = 1, !.er = 0])

\* One step of the tokenizer's parse loop on the character at position i.
Step(s, i, t) ==
    CASE t.st = "Text"                    -> stateText(s, i, t)
      [] t.st = "SpecialStartSequence"    -> stateSpecialStartSequence(s, i, t)
      [] t.st = "InSpecialTag"            -> stateInSpecialTag(s, i, t)
      [] t.st = "CDATASequence"           -> stateCDATASequence(s, i, t)
      [] t.st = "InAttributeValueDq"      -> handleInAttributeValue(s, i, t, "\"")
      [] t.st = "InAttributeName"         -> stateInAttributeName(s, i, t)
      [] t.st = "InCommentLike"           -> stateInCommentLike(s, i, t)
      [] t.st = "InSpecialComment"        -> stateInSpecialComment(s, i, t)
      [] t.st = "BeforeAttributeName"     -> stateBeforeAttributeName(s, i, t)
      [] t.st = "InTagName"               -> stateInTagName(s, i, t)
      [] t.st = "InClosingTagName"        -> stateInClosingTagName(s, i, t)
      [] t.st = "BeforeTagName"           -> stateBeforeTagName(s, i, t)
      [] t.st = "AfterAttributeName"      -> stateAfterAttributeName(s, i, t)
      [] t.st = "InAttributeValueSq"      -> handleInAttributeValue(s, i, t, "'")
      [] t.st = "BeforeAttributeValue"    -> stateBeforeAttributeValue(s, i, t)
      [] t.st = "BeforeClosingTagName"    -> stateBeforeClosingTagName(s, i, t)
      [] t.st = "AfterClosingTagName"     -> stateAfterClosingTagName(s, i, t)
      [] t.st = "BeforeSpecialS"          -> stateBeforeSpecialS(s, i, t)
      [] t.st = "InAttributeValueNq"      -> stateInAttributeValueNoQuotes(s, i, t)
      [] t.st = "InSelfClosingTag"        -> stateInSelfClosingTag(s, i, t)
      [] t.st = "InDeclaration"           -> stateInDeclaration(s, i, t)
      [] t.st = "BeforeDeclaration"       -> stateBeforeDeclaration(s, i, t)
      [] t.st = "BeforeComment"           -> stateBeforeComment(s, i, t)
      [] t.st = "InProcessingInstruction" -> stateInProcessingInstruction(s, i, t)
      [] t.st = "BeforeEntity"            -> stateBeforeEntity(s, i, t)
      [] t.st = "BeforeNumericEntity"     -> stateBeforeNumericEntity(s, i, t)
      [] t.st = "InNumericEntity"         -> stateInNumericEntity(s, i, t)
      [] t.st = "InHexEntity"             -> stateInHexEntity(s, i, t)

\* The tokenizer's handleTrailingData at the end of the input: an open
\* comment is dropped, a numeric reference in text is decoded, a tag is
\* dropped, anything else is text from sectionStart on (from the last
\* character when sectionStart is -1): so is an attribute value that ends
\* in the "&" or the "&#..." of a reference.
handleTrailingData(s, t) ==
    IF t.st = "InCommentLike" THEN t
    ELSE IF t.st \in {"InNumericEntity", "InHexEntity"} /\ allowLegacyEntity(t)
    THEN emitNumericEntity(s, Len(s) + 1, t, FALSE)
    ELSE IF t.st \in {"InTagName", "BeforeAttributeName", "BeforeAttributeValue",
                      "AfterAttributeName", "InAttributeName", "InAttributeValueSq",
                      "InAttributeValueDq", "InAttributeValueNq", "InClosingTagName"}
    THEN t
    ELSE IF t.sect = 0 THEN ontext(s, t, Len(s), Len(s))
    ELSE ontext(s, t, t.sect, Len(s))

\* The tokenizer's finish.
finish(s, t) == IF t.sect <= Len(s) THEN handleTrailingData(s, t) ELSE t

RECURSIVE parse(_, _, _)
\* The tokenizer's parse loop from position i on, and finish after it.
parse(s, i, t) ==
    IF i > Len(s) THEN finish(s, t)
    ELSE LET Continue(r) == parse(s, r.i, r.t) IN Continue(Step(s, i, t))

RECURSIVE escapeHtml(_)
\* sanitize-html's escaping of the text it keeps.
escapeHtml(s) ==
    LET EscapeHtmlChar(c) ==
            CASE c = "&" -> <<"&","a","m","p",";">>
              [] c = "<" -> <<"&","l","t",";">>
              [] c = ">" -> <<"&","g","t",";">>
              [] OTHER   -> <<c>>
    IN  IF s = <<>> THEN <<>> ELSE EscapeHtmlChar(Head(s)) \o escapeHtml(Tail(s))

sanitizeHtml(s) == escapeHtml(parse(s, 1, T0).out)

RECURSIVE StripEntities(_, _)
\* String.prototype.replace(/&.*?;/g, ""): from each "&" through the nearest
\* ";" on the same line.
StripEntities(s, i) ==
    IF i > Len(s) THEN <<>>
    ELSE LET semi == FindFrom(s, {";"} \cup LineTerminator, i + 1)
         IN  IF s[i] = "&" /\ semi # 0 /\ s[semi] = ";"
             THEN StripEntities(s, semi + 1)
             ELSE <<s[i]>> \o StripEntities(s, i + 1)

\* sanitizeInput of server.js: sanitize-html, then the entity pattern.
sanitizeInput(value) == StripEntities(sanitizeHtml(value), 1)

\* The second variant's sanitizer: no entity stripping.
sanitizeInputPart000(value) == sanitizeHtml(value)

(***************************************************************************)
(* Request bodies                                                          *)
(***************************************************************************)
Fields ==
    <<"apellidos", "nombres", "email", "telefono", "tipo_evento", "plan_evento",
      "cantidad_anticipo", "servicio_adicional", "horas_renta", "compromiso_pago">>

PlanOptions ==
    { <<"C","l","a","s","i","c","o">>, <<"P","r","e","m","i","u","m">>,
      <<"G","o","l","d","e","n">> }

HorasOptions == { <<"3">>, <<"4">>, <<"5">>, <<"6">>, <<"7">> }

\* One item of a validation chain.
San(op)              == [op |-> op, min |-> 0, max |-> 0, msg |-> ""]
Val(op, msg)         == [op |-> op, min |-> 0, max |-> 0, msg |-> msg]
Length(min, max, msg) == [op |-> "isLength", min |-> min, max |-> max, msg |-> msg]

\* The chains of app.post("/guardar-reserva") in server.js, lines 65-74.
\* withMessage names the message of the validator before it.
ChainServer(f) ==
    CASE f = "apellidos" ->
           <<San("trim"),
             Length(2, 27, "Los apellidos deben tener entre 2 y 27 caracteres"),
             San("escape")>>
      [] f = "nombres" ->
           <<San("trim"),
             Length(2, 20, "El nombre debe tener entre 2 y 20 caracteres"),
             San("escape")>>
      [] f = "email" ->
           <<San("trim"), Val("isEmail", "Ingresa un email valido")>>
      [] f = "telefono" ->
           <<San("trim"), Val("isNumeric", "Invalid value"),
             Length(10, 10, "Numero de telefono debe ser de 10 digitos")>>
      [] f = "tipo_evento" ->
           <<San("trim"), Length(3, 10, "Tipo de evento debe ser valido"),
             San("escape")>>
      [] f = "plan_evento" ->
           <<San("trim"), Val("isInPlan", "Plan de evento no valido")>>
      [] f = "cantidad_anticipo" ->
           <<Val("isNumeric", "Cantidad de anticipo debe ser un numero")>>
      [] f = "servicio_adicional" ->
           <<San("trim"), San("optional"), San("escape")>>
      [] f = "horas_renta" ->
           <<Val("isInHoras", "Horas de renta no validas")>>
      [] f = "compromiso_pago" ->
           <<Val("isBoolean", "Compromiso de pago debe ser verdadero o falso")>>

\* The chains of the second variant, lines 64-73: escape runs before isLength.
ChainPart000(f) ==
    CASE f = "apellidos" ->
           <<San("trim"), San("escape"),
             Length(2, 27, "Los apellidos deben tener al menos 2 caracteres")>>
      [] f = "nombres" ->
           <<San("trim"), San("escape"),
             Length(2, 20, "El nombre debe tener al menos 2 caracteres")>>
      [] f = "email" ->
           <<San("trim"), Val("isEmail", "Ingresa un email valido")>>
      [] f = "telefono" ->
           <<San("trim"), Val("isNumeric", "Invalid value"),
             Length(10, 10, "Numero de telefono debe ser de 10 digitos")>>
      [] f = "tipo_evento" ->
           <<San("trim"), San("escape"),
             Length(3, 10, "Tipo de evento debe ser valido")>>
      [] f = "plan_evento" ->
           <<San("trim"), San("escape"), Val("isInPlan", "Plan de evento no valido")>>
      [] f = "cantidad_anticipo" ->
           <<Val("isNumeric", "Cantidad de anticipo debe ser un numero")>>
      [] f = "servicio_adicional" ->
           <<San("trim"), San("escape"), San("optional")>>
      [] f = "horas_renta" ->
           <<Val("isInHoras", "Horas de renta no validas")>>
      [] f = "compromiso_pago" ->
           <<Val("isBoolean", "Compromiso de pago debe ser verdadero o falso")>>

Chain(v, f) == IF v = "server.js" THEN ChainServer(f) ELSE ChainPart000(f)

\* The validators that throw on a value instead of judging it.
Throws(item, s) == item.op = "isEmail" /\ isEmailThrows(s)

Passes(item, s) ==
    CASE item.op = "isLength"  -> isLength(s, item.min, item.max)
      [] item.op = "isEmail"   -> isEmail(s)
      [] item.op = "isNumeric" -> isNumeric(s)
      [] item.op = "isInPlan"  -> isIn(s, PlanOptions)
      [] item.op = "isInHoras" -> isIn(s, HorasOptions)
      [] item.op = "isBoolean" -> isBoolean(s)
      [] OTHER                 -> TRUE

RECURSIVE RunChain(_, _, _, _)
\* express-validator runs the items of a chain in order: a sanitizer writes
\* the String() form it computes back into req.body, a validator that fails
\* adds one error, one that throws ends the run.  Result: the field's value,
\* its errors, and whether a validator threw.
RunChain(chain, i, v, errs) ==
    IF i > Len(chain) THEN [value |-> v, errors |-> errs, thrown |-> FALSE]
    ELSE LET item == chain[i]
         IN  IF item.op \in {"trim", "escape"}
             THEN RunChain(chain, i + 1,
                           Str("string", IF item.op = "trim" THEN trim(toString(v))
                                         ELSE escape(toString(v))),
                           errs)
             ELSE IF Throws(item, toString(v))
             THEN [value |-> v, errors |-> errs, thrown |-> TRUE]
             ELSE IF Passes(item, toString(v))
             THEN RunChain(chain, i + 1, v, errs)
             ELSE RunChain(chain, i + 1, v, Append(errs, item.msg))

\* A chain marked optional() is skipped whole for an undefined value.
RunField(v, f, value) ==
    IF (\E i \in 1..Len(Chain(v, f)) : Chain(v, f)[i].op = "optional")
       /\ value.k = "undefined"
    THEN [value |-> value, errors |-> <<>>, thrown |-> FALSE]
    ELSE RunChain(Chain(v, f), 1, value, <<>>)

RECURSIVE RunChains(_, _, _)
\* The chains are middleware, run one after the other on req: each writes
\* its field's value back into req.body and adds its errors to req; when one
\* throws, the error goes to Express and the ones after it do not run.
RunChains(v, i, req) ==
    IF i > Len(Fields) \/ req.thrown THEN req
    ELSE LET f == Fields[i]
             r == RunField(v, f, req.body[f])
         IN  RunChains(v, i + 1,
                       [body   |-> [req.body EXCEPT ![f] = r.value],
                        errors |-> req.errors \o
                                   [k \in 1..Len(r.errors) |->
                                       [param |-> f, msg |-> r.errors[k]]],
                        thrown |-> r.thrown])

\* req when the handler of app.post("/guardar-reserva") is reached with body.
Request(v, body) == RunChains(v, 1, [body |-> body, errors |-> <<>>, thrown |-> FALSE])

\* validationResult(req).array()
validationResult(req) == req.errors

SanitizeBy(v, s) == IF v = "server.js" THEN sanitizeInput(s) ELSE sanitizeInputPart000(s)

\* req.body.servicio_adicional || ""
OrEmpty(value) == IF value.k = "undefined" \/ value.s = <<>> THEN <<>> ELSE value.s

\* sanitizedData of app.post("/guardar-reserva"), built from req.body after
\* the chains ran.
sanitizedData(v, req) ==
    LET b == req.body
    IN  [field \in DOMAIN b |->
            IF field \in {"apellidos", "nombres", "tipo_evento", "servicio_adicional"}
            THEN Str("string", SanitizeBy(v, IF field = "servicio_adicional"
                                            THEN OrEmpty(b[field])
                                            ELSE toString(b[field])))
            ELSE b[field]]

(***************************************************************************)
(* Inputs                                                                  *)
(***************************************************************************)
S(s) == Str("string", s)

Base ==
    [apellidos          |-> S(<<"L","o","p","e","z">>),
     nombres            |-> S(<<"A","n","a">>),
     email              |-> S(<<"a","@","x",".","c","o">>),
     telefono           |-> S(<<"5","5","1","2","3","4","5","6","7","8">>),
     tipo_evento        |-> S(<<"B","o","d","a">>),
     plan_evento        |-> S(<<"C","l","a","s","i","c","o">>),
     cantidad_anticipo  |-> Str("number", <<"1","0","0">>),
     servicio_adicional |-> S(<<"D","J">>),
     horas_renta        |-> S(<<"3">>),
     compromiso_pago    |-> Str("boolean", <<"t","r","u","e">>)]

\* Values a client may submit in place of a field of Base.
Alternatives(f) ==
    CASE f = "apellidos" ->
           { S(<<"<","b",">">>) }
      [] f = "nombres" ->
           { S(<<"A">>) }
      [] f = "email" ->
           { S(<<"a","@","x">>), S(<<Chr(55296),"@","x",".","c","o">>) }
      [] f = "telefono" ->
           { S(<<"+","5","5","1","2","3","4","5","6","7">>), S(<<"5","5","1","2">>) }
      [] f = "tipo_evento" ->
           { S(<<"X","V">>) }
      [] f = "plan_evento" ->
           { S(<<"B","a","s","i","c","o">>) }
      [] f = "cantidad_anticipo" ->
           { S(<<"a","b","c">>) }
      [] f = "servicio_adicional" ->
           { Undefined }
      [] f = "horas_renta" ->
           { S(<<"8">>) }
      [] f = "compromiso_pago" ->
           { S(<<"y","e","s">>) }

\* Bodies sent to POST /guardar-reserva: Base, and Base with one field replaced.
Payloads ==
    {Base} \cup UNION {{[Base EXCEPT ![f] = a] : a \in Alternatives(f)} : f \in DOMAIN Base}

\* Bodies sent to PUT /actualizar-reserva/:id.
UpdatePayloads ==
    { [Base EXCEPT !["telefono"] = S(<<"5","5","1","2">>)] }

Clients == {"c1", "c2"}

\* Largest id the storage hands out before the model stops creating rows.
MaxId == 2

\* Requests one client sends within one window.
MaxBurst == 1

\* Statements in flight together.
MaxInFlight == 2

(***************************************************************************)
(* Rate limiter (express-rate-limit, its in-memory store)                  *)
(***************************************************************************)
windowMs == 2 * 60 * 1000

max == 125

\* Granularity of the clock where the limiter is under load: half a window.
TickMs == 60 * 1000

\* Messages are written in ASCII here, without accents and inverted marks.
LimiterMessage == "Ja! No puedes tirar mi server."

\* Limited, off by one.
LimitedAtMax(c) == (IF remaining[c] = 0 THEN 1 ELSE hits[c] + 1) >= 125

\* The client's count after this request: the first request of a window opens it.
HitsAfter(c) == IF remaining[c] = 0 THEN 1 ELSE hits[c] + 1

Limited(c) == HitsAfter(c) > max

\* The store's increment: count the hit; a new window ends windowMs later.
Increment(c) ==
    /\ hits' = [hits EXCEPT ![c] = HitsAfter(c)]
    /\ remaining' = [remaining EXCEPT ![c] = IF @ = 0 THEN windowMs ELSE @]

Response(status, body) == [status |-> status, body |-> body]

\* What a step sent: the request's route and id, whether its storage call
\* reported an error, and every response sent for it.
Answer(route, id, err, sent) == [route |-> route, id |-> id, err |-> err, sent |-> sent]

NoResp == Answer("none", 0, FALSE, <<>>)

\* What the storage hands to the callback of a statement: err, and the
\* results, the rows of a SELECT or the affectedRows of a write.
Result(err, rows, affectedRows) ==
    [done |-> TRUE, err |-> err, rows |-> rows, affectedRows |-> affectedRows]

\* connection.query(sql, params, callback) of a request: the statement, and
\* its result once the storage has run it (done).
Query(route, sql, id, body, params) ==
    [route |-> route, sql |-> sql, id |-> id, body |-> body, params |-> params,
     result |-> [done |-> FALSE, err |-> FALSE, rows |-> {}, affectedRows |-> 0]]

\* The limiter's handler for a request over the limit: 429 and the message,
\* and the request goes no further.
Reject(route, id) ==
    /\ resp' = Answer(route, id, FALSE, <<Response(429, [text |-> LimiterMessage])>>)
    /\ UNCHANGED <<pending, table, nextId>>

\* The time passes by ms; a window that ends resets its client's count.
Tick(ms) ==
    /\ \E c \in Clients : remaining[c] > 0
    /\ remaining' = [c \in Clients |->
                        IF remaining[c] > ms THEN remaining[c] - ms ELSE 0]
    /\ hits' = [c \in Clients |-> IF remaining[c] > ms THEN hits[c] ELSE 0]
    /\ resp' = NoResp
    /\ UNCHANGED <<variant, table, nextId, pending, sanIn, sanOut>>

(***************************************************************************)
(* Storage: the reservas table behind connection.query                     *)
(***************************************************************************)
Row(t, id) == [id |-> id, data |-> t[id]]

Rows(t) == {Row(t, id) : id \in DOMAIN t}

\* The SELECT without its LIMIT.
SelectNoLimit(t) == {Rows(t)}

\* SELECT * FROM reservas LIMIT 10: the result sets the engine may return,
\* any 10 rows of a larger table (no ORDER BY).
SelectLimit(t) ==
    {R \in SUBSET Rows(t) : Cardinality(R) = Min(10, Cardinality(Rows(t)))}

\* The SELECT without its WHERE.
SelectNoWhere(t, id) == Rows(t)

\* SELECT * FROM reservas WHERE id = ?
SelectById(t, id) == {r \in Rows(t) : r.id = id}

\* INSERT INTO reservas (...) VALUES (...): the storage generates the id.
Insert(t, id, params) == [i \in DOMAIN t \cup {id} |-> IF i = id THEN params ELSE t[i]]

\* UPDATE reservas SET ... WHERE id = ?
Update(t, id, params) == [i \in DOMAIN t |-> IF i = id THEN params ELSE t[i]]

\* The DELETE without its WHERE.
DeleteNoWhere(t, id) == [i \in {} |-> t[i]]

\* DELETE FROM reservas WHERE id = ?
Delete(t, id) == [i \in DOMAIN t \ {id} |-> t[i]]

\* results.affectedRows of an UPDATE or DELETE by id.
AffectedRows(t, id) == IF id \in DOMAIN t THEN 1 ELSE 0

(***************************************************************************)
(* Route handlers: the request's synchronous part                          *)
(***************************************************************************)
\* connection.query(...): the statement is in flight, the handler returns.
Issue(q) ==
    /\ pending' = pending (+) SetToBag({q})
    /\ resp' = NoResp
    /\ UNCHANGED <<table, nextId>>

Respond(route, id, r) ==
    /\ resp' = Answer(route, id, FALSE, <<r>>)
    /\ UNCHANGED <<pending, table, nextId>>

\* app.get("/reservas")
ListReservas(c) ==
    /\ Increment(c)
    /\ IF Limited(c) THEN Reject("GET /reservas", 0)
       ELSE Issue(Query("GET /reservas", "SELECT_LIMIT", 0, Base, Base))
    /\ UNCHANGED <<variant, sanIn, sanOut>>

\* app.get("/reserva/:id")
GetReserva(c, id) ==
    /\ Increment(c)
    /\ IF Limited(c) THEN Reject("GET /reserva/:id", id)
       ELSE Issue(Query("GET /reserva/:id", "SELECT_BY_ID", id, Base, Base))
    /\ UNCHANGED <<variant, sanIn, sanOut>>

\* app.post("/guardar-reserva"): 400 with the errors, or the INSERT of
\* sanitizedData; 500 from Express when a chain threw.
GuardarReserva(c, body) ==
    \E req \in {Request(variant, body)} :
        /\ Increment(c)
        /\ IF Limited(c) THEN Reject("POST /guardar-reserva", 0)
           ELSE IF req.thrown
           THEN Respond("POST /guardar-reserva", 0,
                        Response(500, [text |-> "URIError: URI malformed"]))
           ELSE IF validationResult(req) # <<>>
           THEN Respond("POST /guardar-reserva", 0,
                        Response(400, [errors |-> validationResult(req)]))
           ELSE Issue(Query("POST /guardar-reserva", "INSERT", 0, body,
                            sanitizedData(variant, req)))
        /\ UNCHANGED <<variant, sanIn, sanOut>>

\* Whether the variant's route table holds PUT /actualizar-reserva/:id.
HasUpdateRoute(v) == v = "part_000"

\* app.put("/actualizar-reserva/:id") where it is defined; elsewhere no route
\* matches and Express answers 404 itself.
ActualizarReserva(c, id, body) ==
    /\ Increment(c)
    /\ IF Limited(c) THEN Reject("PUT /actualizar-reserva/:id", id)
       ELSE IF ~HasUpdateRoute(variant)
       THEN Respond("PUT /actualizar-reserva/:id", id,
                    Response(404, [text |-> "Cannot PUT"]))
       ELSE Issue(Query("PUT /actualizar-reserva/:id", "UPDATE", id, body, body))
    /\ UNCHANGED <<variant, sanIn, sanOut>>

\* app.delete("/eliminar-reserva/:id")
EliminarReserva(c, id) ==
    /\ Increment(c)
    /\ IF Limited(c) THEN Reject("DELETE /eliminar-reserva/:id", id)
       ELSE Issue(Query("DELETE /eliminar-reserva/:id", "DELETE", id, Base, Base))
    /\ UNCHANGED <<variant, sanIn, sanOut>>

(***************************************************************************)
(* Route handlers: the callbacks of connection.query                       *)
(***************************************************************************)
\* Callback of app.get("/reservas").
ListResponses(err, results) ==
    IF err THEN <<Response(500, [mensaje |-> "Error al obtener las reservas"])>>
    ELSE <<Response(200, [rows |-> results])>>

\* Callback of app.get("/reserva/:id"); results[0] is the first row returned.
GetResponses(err, results) ==
    IF err THEN <<Response(500, [mensaje |-> "Error al obtener la reserva"])>>
    ELSE IF Cardinality(results) > 0
    THEN <<Response(200, [row |-> CHOOSE r \in results : TRUE])>>
    ELSE <<Response(404, [mensaje |-> "Reserva no encontrada"])>>

\* The callback without the return after its 500.
InsertResponsesNoReturn(err) ==
    IF err THEN <<Response(500, [mensaje |-> "Error en el servidor"]),
                  Response(200, [mensaje |-> "Reserva guardada con exito"])>>
    ELSE <<Response(200, [mensaje |-> "Reserva guardada con exito"])>>

\* Callback of app.post("/guardar-reserva").
InsertResponses(err) ==
    IF err THEN <<Response(500, [mensaje |-> "Error en el servidor"])>>
    ELSE <<Response(200, [mensaje |-> "Reserva guardada con exito"])>>

\* Callback of app.put("/actualizar-reserva/:id").
UpdateResponses(err, affectedRows) ==
    IF err THEN <<Response(500, [mensaje |-> "Error al actualizar la reserva"])>>
    ELSE IF affectedRows > 0
    THEN <<Response(200, [mensaje |-> "Reserva actualizada con exito"])>>
    ELSE <<Response(404, [mensaje |-> "Reserva no encontrada"])>>

\* Callback of app.delete("/eliminar-reserva/:id").
DeleteResponses(err, affectedRows) ==
    IF err THEN <<Response(500, [mensaje |-> "Error al eliminar la reserva"])>>
    ELSE IF affectedRows > 0
    THEN <<Response(200, [mensaje |-> "Reserva eliminada con exito"])>>
    ELSE <<Response(404, [mensaje |-> "Reserva no encontrada"])>>

\* The callback of the statement q runs: the statement is no longer in
\* flight and the request is answered from the result the storage gave.
\* Which callback runs next is free.
Done(q, sent) ==
    /\ q.result.done
    /\ resp' = Answer(q.route, q.id, q.result.err, sent)
    /\ pending' = pending (-) SetToBag({q})
    /\ UNCHANGED <<variant, table, nextId, hits, remaining, sanIn, sanOut>>

ListCallback ==
    \E q \in BagToSet(pending) :
        /\ q.sql = "SELECT_LIMIT"
        /\ Done(q, ListResponses(q.result.err, q.result.rows))

GetCallback ==
    \E q \in BagToSet(pending) :
        /\ q.sql = "SELECT_BY_ID"
        /\ Done(q, GetResponses(q.result.err, q.result.rows))

InsertCallback ==
    \E q \in BagToSet(pending) :
        /\ q.sql = "INSERT"
        /\ Done(q, InsertResponses(q.result.err))

UpdateCallback ==
    \E q \in BagToSet(pending) :
        /\ q.sql = "UPDATE"
        /\ Done(q, UpdateResponses(q.result.err, q.result.affectedRows))

DeleteCallback ==
    \E q \in BagToSet(pending) :
        /\ q.sql = "DELETE"
        /\ Done(q, DeleteResponses(q.result.err, q.result.affectedRows))

(***************************************************************************)
(* The storage runs a statement                                            *)
(***************************************************************************)
\* The statement q has run and r is its result; its callback comes later,
\* after whatever other handlers, statements and callbacks run in between.
Ran(q, r) ==
    /\ pending' = (pending (-) SetToBag({q})) (+) SetToBag({[q EXCEPT !.result = r]})
    /\ resp' = NoResp
    /\ UNCHANGED <<variant, hits, remaining, sanIn, sanOut>>

\* The storage runs one of the statements in flight, in any order; a
\* statement that fails changes nothing.  The connection module
\* (./database) is not among the sources; this is the pooled connector of
\* the design document, which gives no ordering across requests and treats
\* a statement as a single unit.
Execute ==
    \E q \in BagToSet(pending) :
        /\ ~q.result.done
        /\ \/ /\ Ran(q, Result(TRUE, {}, 0))
              /\ UNCHANGED <<table, nextId>>
           \/ /\ q.sql = "SELECT_LIMIT"
              /\ \E results \in SelectLimit(table) : Ran(q, Result(FALSE, results, 0))
              /\ UNCHANGED <<table, nextId>>
           \/ /\ q.sql = "SELECT_BY_ID"
              /\ Ran(q, Result(FALSE, SelectById(table, q.id), 0))
              /\ UNCHANGED <<table, nextId>>
           \/ /\ q.sql = "INSERT"
              /\ Ran(q, Result(FALSE, {}, 1))
              /\ table' = Insert(table, nextId, q.params)
              /\ nextId' = nextId + 1
           \/ /\ q.sql = "UPDATE"
              /\ Ran(q, Result(FALSE, {}, AffectedRows(table, q.id)))
              /\ table' = Update(table, q.id, q.params)
              /\ UNCHANGED nextId
           \/ /\ q.sql = "DELETE"
              /\ Ran(q, Result(FALSE, {}, AffectedRows(table, q.id)))
              /\ table' = Delete(table, q.id)
              /\ UNCHANGED nextId

(***************************************************************************)
(* Specifications                                                          *)
(***************************************************************************)
InitServer ==
    /\ variant \in {"server.js", "part_000"}
    /\ table = <<>>
    /\ nextId = 1
    /\ hits = [c \in Clients |-> 0]
    /\ remaining = [c \in Clients |-> 0]
    /\ pending = EmptyBag
    /\ resp = NoResp

Init ==
    /\ InitServer
    /\ sanIn = <<>>
    /\ sanOut = <<>>

Ids == 1..MaxId

\* Client c may send a request: it has sent fewer than n in its window, and
\* fewer than k statements are in flight or the limiter stops the request.
MaySend(c, n, k) ==
    HitsAfter(c) <= n /\ (BagCardinality(pending) < k \/ Limited(c))

\* The ids given to the rows in the table and to the INSERTs in flight
\* that have not run stay within n.
MayInsert(n) ==
    nextId + Cardinality({q \in BagToSet(pending) :
                             q.sql = "INSERT" /\ ~q.result.done}) <= n

\* One client, every route, every payload.
Next ==
    \/ MaySend("c1", MaxBurst, MaxInFlight) /\ ListReservas("c1")
    \/ \E id \in Ids : MaySend("c1", MaxBurst, MaxInFlight) /\ GetReserva("c1", id)
    \/ \E body \in Payloads :
          MaySend("c1", MaxBurst, MaxInFlight) /\ MayInsert(MaxId)
          /\ GuardarReserva("c1", body)
    \/ \E id \in Ids, body \in UpdatePayloads :
          MaySend("c1", MaxBurst, MaxInFlight) /\ ActualizarReserva("c1", id, body)
    \/ \E id \in Ids : MaySend("c1", MaxBurst, MaxInFlight) /\ EliminarReserva("c1", id)
    \/ Execute
    \/ ListCallback
    \/ GetCallback
    \/ InsertCallback
    \/ UpdateCallback
    \/ DeleteCallback
    \/ Tick(windowMs)

Spec == Init /\ [][Next]_vars

(***************************************************************************)
(* The limiter under load: two clients, one of them past the limit         *)
(***************************************************************************)
\* Requests the busy client sends beyond the limit within one window.
BurstOver == 2

\* Largest id handed out while the limiter is under load.
LimiterMaxId == 1

Burst(c) == IF c = "c1" THEN max + BurstOver ELSE MaxBurst

\* Statements in flight together while the limiter is under load.
LimiterInFlight == 1

NextLimiter ==
    \/ \E c \in Clients : MaySend(c, Burst(c), LimiterInFlight) /\ ListReservas(c)
    \/ \E c \in Clients : MaySend(c, Burst(c), LimiterInFlight) /\ GetReserva(c, 1)
    \/ \E c \in Clients :
          MaySend(c, Burst(c), LimiterInFlight) /\ MayInsert(LimiterMaxId)
          /\ GuardarReserva(c, Base)
    \/ \E c \in Clients, body \in UpdatePayloads :
          MaySend(c, Burst(c), LimiterInFlight) /\ ActualizarReserva(c, 1, body)
    \/ \E c \in Clients : MaySend(c, Burst(c), LimiterInFlight) /\ EliminarReserva(c, 1)
    \/ Execute
    \/ ListCallback
    \/ GetCallback
    \/ InsertCallback
    \/ UpdateCallback
    \/ DeleteCallback
    \/ Tick(TickMs)

SpecLimiter == Init /\ [][NextLimiter]_vars

(***************************************************************************)
(* A table larger than the list's limit                                    *)
(***************************************************************************)
\* Largest id handed out while the table is filled.
ListMaxId == 11

NextList ==
    \/ MaySend("c1", MaxBurst, MaxInFlight) /\ ListReservas("c1")
    \/ MaySend("c1", MaxBurst, MaxInFlight) /\ MayInsert(ListMaxId)
       /\ GuardarReserva("c1", Base)
    \/ \E body \in UpdatePayloads :
          MaySend("c1", MaxBurst, MaxInFlight) /\ ActualizarReserva("c1", 1, body)
    \/ MaySend("c1", MaxBurst, MaxInFlight) /\ EliminarReserva("c1", 1)
    \/ Execute
    \/ ListCallback
    \/ InsertCallback
    \/ UpdateCallback
    \/ DeleteCallback
    \/ Tick(windowMs)

SpecList == Init /\ [][NextList]_vars

(***************************************************************************)
(* The sanitizer as a function                                             *)
(***************************************************************************)
\* Longest enumerated input.
MaxLen == 4

SanAlphabet == {"b", "l", "t", "<", ">", "&", ";", "/"}

Script ==
    <<"<","s","c","r","i","p","t",">","a","l","e","r","t","(","1",")",
      "<","/","s","c","r","i","p","t",">">>

LtB == <<"&","l","t",";","b","&","g","t",";">>

\* Markup of other kinds: a comment, a tag in capitals, a ">" within an
\* attribute, references by name and by number, an option left open, a
\* title, attribute values that end in a reference cut short, tag names
\* with capitals outside ASCII.
Markup ==
    { <<"<","a"," ","b","=","\"","x","&">>,
      <<"<","a"," ","b","=","x","&","#","6">>,
      <<"<","t","e","x","t","a","r","e","a"," ","b","=","x","&","#","x">>,
      <<"<","a"," ","b","=","\"","&","a","m","p",";","y","&">>,
      <<"<", "a", Chr(201), ">", "<", "t", "e", "x", "t", "a", "r", "e", "a", ">",
        "<", "/", "a", Chr(233), ">", "x">>,
      <<"<", "a", Chr(931), ">", "<", "o", "p", "t", "i", "o", "n", ">",
        "<", "/", "a", Chr(962), ">", "x">>,
      <<"<","!","-","-","x","-","-",">","y">>,
      <<"<","S","C","R","I","P","T",">","x","<","/","S","C","R","I","P","T",">","y">>,
      <<"<","a"," ","b","=","\"",">","\"",">","c">>,
      <<"&","n","b","s","p",";","&","e","a","c","u","t","e">>,
      <<"&","#","6","0",";","b","&","#","x","3","e",";">>,
      <<"<","o","p","t","i","o","n",">","a","<","p",">","b">>,
      <<"<","t","i","t","l","e",">","&","l","t",";","b","<","/","t","i","t","l","e",">">> }

SanInputs ==
    UNION {[1..n -> SanAlphabet] : n \in 0..MaxLen} \cup {Script, LtB} \cup Markup

InitSan ==
    /\ InitServer
    /\ sanIn \in SanInputs
    /\ sanOut = <<>>

\* Apply the variant's sanitizeInput to the input, then to its own output.
Sanitize ==
    /\ Len(sanOut) < 2
    /\ sanOut' = Append(sanOut,
                        SanitizeBy(variant, IF sanOut = <<>> THEN sanIn
                                            ELSE sanOut[Len(sanOut)]))
    /\ UNCHANGED <<variant, table, nextId, hits, remaining, pending, resp, sanIn>>

SpecSan == InitSan /\ [][Sanitize]_vars

(***************************************************************************)
(* The data model's field rules, and what the claims speak of              *)
(***************************************************************************)
LengthIn(v, lo, hi) == v.k = "string" /\ Len(v.s) >= lo /\ Len(v.s) <= hi

TenDigits(v) == Len(toString(v)) = 10 /\ AllIn(toString(v), Digit)

\* The field rules of the data model, judged on the values as they stand.
FieldRules(r) ==
    /\ LengthIn(r.apellidos, 2, 27)
    /\ LengthIn(r.nombres, 2, 20)
    /\ isEmail(toString(r.email))
    /\ TenDigits(r.telefono)
    /\ LengthIn(r.tipo_evento, 3, 10)
    /\ toString(r.plan_evento) \in PlanOptions
    /\ isNumeric(toString(r.cantidad_anticipo))
    /\ toString(r.horas_renta) \in HorasOptions
    /\ isBoolean(toString(r.compromiso_pago))

\* The rules a persisted row is held to (the claim names no rule for
\* cantidad_anticipo and servicio_adicional).
RowRules(r) ==
    /\ LengthIn(r.apellidos, 2, 27)
    /\ LengthIn(r.nombres, 2, 20)
    /\ isEmail(toString(r.email))
    /\ TenDigits(r.telefono)
    /\ LengthIn(r.tipo_evento, 3, 10)
    /\ toString(r.plan_evento) \in PlanOptions
    /\ toString(r.horas_renta) \in HorasOptions
    /\ isBoolean(toString(r.compromiso_pago))

\* An HTML tag: "<", a letter, "/", "!" or "?", and a ">" after them.
HasTag(s) ==
    \E i \in 1..Len(s) : \E j \in 1..Len(s) :
        /\ s[i] = "<"
        /\ i + 1 < j
        /\ s[i + 1] \in Letter \cup {"/", "!", "?"}
        /\ s[j] = ">"

\* An entity reference of the form &...;
HasEntity(s) ==
    \E i \in 1..Len(s) : \E j \in 1..Len(s) : i < j /\ s[i] = "&" /\ s[j] = ";"

Clean(v) == v.k = "string" /\ ~HasTag(v.s) /\ ~HasEntity(v.s)

Statuses(r) == [i \in 1..Len(r.sent) |-> r.sent[i].status]

\* This step is the end of the statement q: its callback ran.
Completed(q) == BagIn(q, pending) /\ pending' = pending (-) SetToBag({q})

\* In this step the storage ran the statement q, with result r.
Executed(q, r) ==
    /\ BagIn(q, pending)
    /\ ~q.result.done
    /\ r.done
    /\ pending' = (pending (-) SetToBag({q})) (+) SetToBag({[q EXCEPT !.result = r]})

\* The results statements in flight have after this step.
ResultsAfter == {p.result : p \in BagToSet(pending')}

\* This step puts the statement q in flight.
Issued(q) == pending' = pending (+) SetToBag({q})

SameRows(ids) == \A i \in ids : i \in DOMAIN table' /\ table'[i] = table[i]

(***************************************************************************)
(* C1                                                                      *)
(***************************************************************************)
\* C1: a payload that violates a field rule, judged as submitted, gets 400
\* and no INSERT: every INSERT that is issued carries a payload that
\* satisfies all field rules.
C1_NoInsertOfInvalid ==
    \A q \in BagToSet(pending) : q.sql = "INSERT" => FieldRules(q.body)

(***************************************************************************)
(* C2                                                                      *)
(***************************************************************************)
\* C2: in every reachable state every row of the table satisfies the field
\* constraints of the data model.
C2_RowsValid == \A id \in DOMAIN table : RowRules(table[id])

(***************************************************************************)
(* C3                                                                      *)
(***************************************************************************)
\* C3: the INSERT of a payload that satisfies all field rules, when the
\* storage runs it without error, adds exactly one row and changes no
\* other; the row's free-text fields hold neither tag nor entity reference,
\* its email, telefono, plan_evento, horas_renta and compromiso_pago are the
\* submitted values.
C3_CreatePersists ==
    [][ \A q \in BagToSet(pending) : \A r \in ResultsAfter :
          (Executed(q, r) /\ q.sql = "INSERT" /\ ~r.err /\ FieldRules(q.body)) =>
             \E id \in DOMAIN table' \ DOMAIN table :
                /\ DOMAIN table' = DOMAIN table \cup {id}
                /\ SameRows(DOMAIN table)
                /\ Clean(table'[id].apellidos)
                /\ Clean(table'[id].nombres)
                /\ Clean(table'[id].tipo_evento)
                /\ Clean(table'[id].servicio_adicional)
                /\ table'[id].email = q.body.email
                /\ table'[id].telefono = q.body.telefono
                /\ table'[id].plan_evento = q.body.plan_evento
                /\ table'[id].horas_renta = q.body.horas_renta
                /\ table'[id].compromiso_pago = q.body.compromiso_pago ]_vars

(***************************************************************************)
(* C4                                                                      *)
(***************************************************************************)
\* C4: a DELETE that the storage runs without error removes exactly the row
\* with the id and affects one row when that row exists, and otherwise
\* leaves the table as it is and affects none; its callback changes no row
\* and answers 200 in the first case, 404 in the second.
C4_DeleteExact ==
    [][ /\ \A q \in BagToSet(pending) : \A r \in ResultsAfter :
             (Executed(q, r) /\ q.sql = "DELETE" /\ ~r.err) =>
                IF q.id \in DOMAIN table
                THEN /\ DOMAIN table' = DOMAIN table \ {q.id}
                     /\ SameRows(DOMAIN table \ {q.id})
                     /\ r.affectedRows = 1
                ELSE /\ table' = table
                     /\ r.affectedRows = 0
        /\ \A q \in BagToSet(pending) :
             (Completed(q) /\ q.sql = "DELETE" /\ ~q.result.err) =>
                /\ table' = table
                /\ Statuses(resp') = IF q.result.affectedRows = 1 THEN <<200>>
                                     ELSE <<404>> ]_vars

\* A delete of one of two rows has been answered 200 while another
\* statement is in flight: the other row is still there.
C4_Witness ==
    /\ resp.route = "DELETE /eliminar-reserva/:id"
    /\ Statuses(resp) = <<200>>
    /\ resp.id \notin DOMAIN table
    /\ DOMAIN table # {}
    /\ pending # EmptyBag

(***************************************************************************)
(* C5                                                                      *)
(***************************************************************************)
\* This step is a request of client c passing the limiter's counter.
RequestOf(c) == hits'[c] # hits[c] /\ hits'[c] >= 1

\* C5: the served API has the update: a PUT for the id of a row, which the
\* limiter lets through, is answered by the callback of its UPDATE and not
\* before; an UPDATE that the storage runs without error replaces the row
\* by the submitted values when the id exists and leaves the table
\* unchanged when it does not; its callback answers 200 in the first case,
\* 404 in the second.
C5_UpdateServed ==
    [][ /\ \A q \in BagToSet(pending) : \A r \in ResultsAfter :
             (Executed(q, r) /\ q.sql = "UPDATE" /\ ~r.err) =>
                IF q.id \in DOMAIN table
                THEN /\ r.affectedRows = 1
                     /\ DOMAIN table' = DOMAIN table
                     /\ table'[q.id] = q.body
                     /\ SameRows(DOMAIN table \ {q.id})
                ELSE /\ r.affectedRows = 0
                     /\ table' = table
        /\ \A q \in BagToSet(pending) :
             (Completed(q) /\ q.sql = "UPDATE" /\ ~q.result.err) =>
                /\ table' = table
                /\ Statuses(resp') = IF q.result.affectedRows = 1 THEN <<200>>
                                     ELSE <<404>>
        /\ \A c \in Clients :
             (RequestOf(c) /\ resp'.route = "PUT /actualizar-reserva/:id"
              /\ resp'.id \in DOMAIN table) =>
                Statuses(resp') = <<429>> ]_vars

(***************************************************************************)
(* C6                                                                      *)
(***************************************************************************)
\* C6: the n-th request of a client within its window is handed to the
\* routes when n <= 125 and answered 429 with the fixed message when
\* n > 125; the window is not extended by requests; when it ends the count
\* restarts; a client's request leaves the other clients' counters alone.
C6_FixedWindow ==
    [][ /\ \A c \in Clients :
             RequestOf(c) =>
               /\ hits'[c] = (IF remaining[c] = 0 THEN 1 ELSE hits[c] + 1)
               /\ remaining'[c] = (IF remaining[c] = 0 THEN windowMs ELSE remaining[c])
               /\ \A d \in Clients \ {c} :
                     hits'[d] = hits[d] /\ remaining'[d] = remaining[d]
               /\ IF hits'[c] <= 125
                  THEN \/ \E q \in BagToSet(pending') : Issued(q)
                       \/ Statuses(resp') \in {<<400>>, <<404>>, <<500>>}
                  ELSE /\ resp'.sent = <<Response(429, [text |-> LimiterMessage])>>
                       /\ pending' = pending
                       /\ table' = table
        /\ \A c \in Clients :
             (remaining[c] > 0 /\ remaining'[c] = 0) => hits'[c] = 0 ]_vars

\* The 126th request of a window has been rejected while a statement is in
\* flight and the other client is within its own window.
C6_Witness ==
    /\ hits["c1"] = 126
    /\ Statuses(resp) = <<429>>
    /\ hits["c2"] = 1
    /\ pending # EmptyBag

(***************************************************************************)
(* C7                                                                      *)
(***************************************************************************)
\* C7: the SELECT of a GET by id, when the storage runs it without error,
\* returns no row when no row has the id and exactly that row when one has;
\* its callback answers 404 in the first case and 200 with that row in the
\* second; the table is unchanged by both.
C7_GetExact ==
    [][ /\ \A q \in BagToSet(pending) : \A r \in ResultsAfter :
             (Executed(q, r) /\ q.sql = "SELECT_BY_ID" /\ ~r.err) =>
                /\ table' = table
                /\ r.rows = IF q.id \in DOMAIN table THEN {Row(table, q.id)} ELSE {}
        /\ \A q \in BagToSet(pending) :
             (Completed(q) /\ q.sql = "SELECT_BY_ID" /\ ~q.result.err) =>
                /\ table' = table
                /\ IF q.result.rows = {}
                   THEN Statuses(resp') = <<404>>
                   ELSE \E row \in q.result.rows :
                           /\ row.id = q.id
                           /\ resp'.sent = <<Response(200, [row |-> row])>> ]_vars

\* A row was fetched by id from a table of two rows and deleted before the
\* answer was sent.
C7_Witness ==
    /\ resp.route = "GET /reserva/:id"
    /\ Statuses(resp) = <<200>>
    /\ resp.sent[1].body.row.id = resp.id
    /\ resp.id \notin DOMAIN table
    /\ DOMAIN table # {}

(***************************************************************************)
(* C8                                                                      *)
(***************************************************************************)
\* C8 as stated: sanitizeInput is idempotent, its output holds neither tag
\* nor entity reference, and both <script>alert(1)</script> and &lt;b&gt;
\* sanitize to the empty string.
C8_AsStated ==
    Len(sanOut) >= 1 =>
        /\ ~HasTag(sanOut[1])
        /\ ~HasEntity(sanOut[1])
        /\ Len(sanOut) = 2 => sanOut[2] = sanOut[1]
        /\ sanIn = Script => sanOut[1] = <<>>
        /\ sanIn = LtB => sanOut[1] = <<>>

(***************************************************************************)
(* C9                                                                      *)
(***************************************************************************)
\* C9: the SELECT of a list, when the storage runs it without error,
\* returns at most 10 records, each a row of the table as it is then,
\* whatever the table's size; its callback answers 200 with those records;
\* the table is unchanged by both.
C9_ListAtMostTen ==
    [][ /\ \A q \in BagToSet(pending) : \A r \in ResultsAfter :
             (Executed(q, r) /\ q.sql = "SELECT_LIMIT" /\ ~r.err) =>
                /\ table' = table
                /\ Cardinality(r.rows) <= 10
                /\ r.rows \subseteq Rows(table)
        /\ \A q \in BagToSet(pending) :
             (Completed(q) /\ q.sql = "SELECT_LIMIT" /\ ~q.result.err) =>
                /\ table' = table
                /\ resp'.sent = <<Response(200, [rows |-> q.result.rows])>> ]_vars

\* A list was answered with 10 records from a table of more than 10 rows,
\* one of which was replaced after the SELECT ran.
C9_Witness ==
    /\ resp.route = "GET /reservas"
    /\ Statuses(resp) = <<200>>
    /\ Cardinality(DOMAIN table) > 10
    /\ Cardinality(resp.sent[1].body.rows) = 10
    /\ ~(resp.sent[1].body.rows \subseteq Rows(table))

(***************************************************************************)
(* C10                                                                     *)
(***************************************************************************)
\* C10: a request puts one statement in flight at most; the storage runs a
\* statement once, and one that fails leaves the table unchanged; a
\* statement ends once, with exactly one response to its request and no
\* further statement: 500 when the storage reported an error, and otherwise
\* not 500.  Whatever is sent for a request is one response.
C10_OneStatementOneResponse ==
    [][ /\ \A q \in BagToSet(pending) :
             Completed(q) =>
                /\ q.result.done
                /\ resp'.route = q.route
                /\ Len(resp'.sent) = 1
                /\ table' = table
                /\ q.result.err => Statuses(resp') = <<500>>
                /\ ~q.result.err => Statuses(resp') # <<500>>
        /\ \A q \in BagToSet(pending) : \A r \in ResultsAfter :
             Executed(q, r) =>
                /\ resp'.sent = <<>>
                /\ r.err => table' = table
        /\ pending' # pending =>
             \/ \E q \in BagToSet(pending) : Completed(q)
             \/ \E q \in BagToSet(pending) : \E r \in ResultsAfter : Executed(q, r)
             \/ \E q \in BagToSet(pending') : Issued(q) /\ resp'.sent = <<>>
        /\ table' # table =>
             \E q \in BagToSet(pending) : \E r \in ResultsAfter : Executed(q, r)
        /\ resp'.sent # <<>> => Len(resp'.sent) = 1 ]_vars

\* An INSERT failed and its request was answered 500 while another
\* statement was in flight.
C10_Witness ==
    /\ resp.route = "POST /guardar-reserva"
    /\ resp.err
    /\ Statuses(resp) = <<500>>
    /\ pending # EmptyBag

=============================================================================
